---- MODULE Spec2Model ----
(***************************************************************************)
(* A model of the in-memory spreadsheet simulator (excel_sim.py) and of    *)
(* the manifest-driven dispatcher that serves it (excel_mcp.py).           *)
(*                                                                         *)
(* Python values are represented as follows.                               *)
(*   str            a TLA+ string; characters are read with SubSeq         *)
(*   dict           a function whose DOMAIN is the key set                 *)
(*   ordered dict   a sequence of records (kwargs, self.sheets)            *)
(*   Optional[x]    None, or Some(x): never compared as a whole            *)
(*   exception      an outcome record with an "exc" field                  *)
(*   JSON payload   tagged by its only field: [object |-> r],              *)
(*                  [array |-> s], so that two payloads of different       *)
(*                  kinds are unequal rather than incomparable             *)
(***************************************************************************)
EXTENDS Integers, Sequences, FiniteSets, TLC

VARIABLES
    sheets,               \* self.sheets: ordered dict name -> Sheet
    active_sheet,         \* self.active_sheet
    tables,               \* self.tables
    charts,               \* self.charts
    comments,             \* self.comments
    conditional_formats,  \* self.conditional_formats
    data_validations,     \* self.data_validations
    named_ranges,         \* self.named_ranges
    chart_counter,        \* self._chart_counter
    tool,                 \* _dispatch: tool_name of the last call
    params,               \* _dispatch / _remap_params: params of the last call
    remap_arg,            \* _dispatch / _remap_params: the rename table of the last call
    result,               \* _dispatch: the local `result` of the last call
    response,             \* what the last _dispatch call returned or raised
    manifest,             \* register_tools: the tools of the manifest file
    mcp_tools,            \* the handlers registered with mcp.tool(), in registration order
    called                \* register_tools, or the registered name of the handler last called

vars == <<sheets, active_sheet, tables, charts, comments, conditional_formats,
          data_validations, named_ranges, chart_counter,
          tool, params, remap_arg, result, response, manifest, mcp_tools, called>>

----------------------------------------------------------------------------
(* Python built-ins used by the program *)

None == [none |-> TRUE]

Some(x) == [none |-> FALSE, v |-> x]

\* `x or y` on Optional[str]: None and "" are falsy
Truthy(o) == IF o.none THEN FALSE ELSE o.v # ""

Or(a, b) == IF Truthy(a) THEN a ELSE b

EmptyDict == <<>>

DictSet(d, k, v) == (k :> v) @@ d

DictDel(d, k) == [x \in DOMAIN d \ {k} |-> d[x]]

Char(s, i) == SubSeq(s, i, i)

UpperLetters == "ABCDEFGHIJKLMNOPQRSTUVWXYZ"

LowerLetters == "abcdefghijklmnopqrstuvwxyz"

DigitChars == "0123456789"

\* position of the one-character string c in alphabet, 0 when absent
IndexIn(alphabet, c) ==
    IF \E i \in 1..Len(alphabet) : Char(alphabet, i) = c
    THEN CHOOSE i \in 1..Len(alphabet) : Char(alphabet, i) = c
    ELSE 0

\* c.isupper() and c.lower() on one character, as tables over the ASCII letters
\* ord(c) - ord("A") + 1 for the upper-case letters
LetterOrd ==
    [c \in {Char(UpperLetters, i) : i \in 1..Len(UpperLetters)} |-> IndexIn(UpperLetters, c)]

\* int(c) for the decimal digits
DigitValue ==
    [c \in {Char(DigitChars, i) : i \in 1..Len(DigitChars)} |-> IndexIn(DigitChars, c) - 1]

\* c.lower() and c.upper() on one letter
UpperToLower == [c \in DOMAIN LetterOrd |-> Char(LowerLetters, LetterOrd[c])]

LowerToUpper ==
    [c \in {Char(LowerLetters, i) : i \in 1..Len(LowerLetters)} |->
        Char(UpperLetters, IndexIn(LowerLetters, c))]

isupper(c) == c \in DOMAIN UpperToLower

isalpha(c) == c \in DOMAIN UpperToLower \/ c \in DOMAIN LowerToUpper

isdigit(c) == c \in DOMAIN DigitValue

lower_char(c) == IF isupper(c) THEN UpperToLower[c] ELSE c

upper_char(c) == IF c \in DOMAIN LowerToUpper THEN LowerToUpper[c] ELSE c

RECURSIVE str_upper(_)
str_upper(s) == IF s = "" THEN "" ELSE upper_char(Char(s, 1)) \o str_upper(SubSeq(s, 2, Len(s)))

\* s.find(sub) + 1: the 1-based index of the first occurrence, 0 when there is none
str_find(s, sub) ==
    LET first(hits) == IF hits = {} THEN 0 ELSE CHOOSE i \in hits : \A j \in hits : i <= j
    IN first({i \in 1..(Len(s) - Len(sub) + 1) : SubSeq(s, i, i + Len(sub) - 1) = sub})

startswith(s, prefix) == Len(s) >= Len(prefix) /\ SubSeq(s, 1, Len(prefix)) = prefix

\* s.replace(old, new) for a non-empty old: every non-overlapping occurrence, left to right
RECURSIVE str_replace(_, _, _)
str_replace(s, old, new) ==
    LET cut(i) ==
            IF i = 0 THEN s
            ELSE SubSeq(s, 1, i - 1) \o new \o str_replace(SubSeq(s, i + Len(old), Len(s)), old, new)
    IN cut(str_find(s, old))

\* s.strip(chars)
RECURSIVE str_strip(_, _)
str_strip(s, chars) ==
    IF s = "" THEN ""
    ELSE IF IndexIn(chars, Char(s, 1)) > 0 THEN str_strip(SubSeq(s, 2, Len(s)), chars)
    ELSE IF IndexIn(chars, Char(s, Len(s))) > 0 THEN str_strip(SubSeq(s, 1, Len(s) - 1), chars)
    ELSE s

\* int(s) for a string of decimal digits
RECURSIVE int_of(_)
int_of(s) ==
    IF s = "" THEN 0
    ELSE int_of(SubSeq(s, 1, Len(s) - 1)) * 10 + DigitValue[Char(s, Len(s))]

----------------------------------------------------------------------------
(* Address / range algebra *)

RECURSIVE _col_to_index_loop(_, _)
_col_to_index_loop(col, acc) ==
    IF col = "" THEN acc
    ELSE _col_to_index_loop(SubSeq(col, 2, Len(col)), acc * 26 + ((LetterOrd[Char(col, 1)] - 1) + 1))

_col_to_index(col) == _col_to_index_loop(str_upper(col), 0) - 1

RECURSIVE _index_to_col_loop(_, _)
_index_to_col_loop(idx, acc) ==
    IF idx > 0
    THEN _index_to_col_loop((idx - 1) \div 26, Char(UpperLetters, ((idx - 1) % 26) + 1) \o acc)
    ELSE acc

\* a conversion that treats idx as one-based already
_index_to_col_one_based(idx) == _index_to_col_loop(idx, "")

_index_to_col(idx) == _index_to_col_loop(idx + 1, "")

\* length of the longest prefix of s whose characters satisfy the class
RECURSIVE LetterRun(_)
LetterRun(s) == IF s # "" /\ isalpha(Char(s, 1)) THEN 1 + LetterRun(SubSeq(s, 2, Len(s))) ELSE 0

RECURSIVE DigitRun(_)
DigitRun(s) == IF s # "" /\ isdigit(Char(s, 1)) THEN 1 + DigitRun(SubSeq(s, 2, Len(s))) ELSE 0

\* re.match(r"([A-Za-z]+)(\d+)", ref): a prefix match, trailing text is ignored
CellMatches(ref) ==
    LET digits(n) == n > 0 /\ DigitRun(SubSeq(ref, n + 1, Len(ref))) > 0 IN digits(LetterRun(ref))

\* _parse_cell on a matching ref; the caller raises ValueError when CellMatches fails
_parse_cell(ref) ==
    LET cell(n, digits) ==
            [col |-> str_upper(SubSeq(ref, 1, n)), row |-> int_of(SubSeq(digits, 1, DigitRun(digits)))]
        letters(n) == cell(n, SubSeq(ref, n + 1, Len(ref)))
    IN letters(LetterRun(ref))

_parse_range(address) ==
    LET cells(cell_part, colon) ==
            [start |-> str_upper(IF colon > 0 THEN SubSeq(cell_part, 1, colon - 1) ELSE cell_part),
             end |-> str_upper(IF colon > 0 THEN SubSeq(cell_part, colon + 1, Len(cell_part))
                               ELSE cell_part)]
        split(sheet_name, cell_part) ==
            [sheet |-> sheet_name] @@ cells(cell_part, str_find(cell_part, ":"))
        qualified(bang) ==
            IF bang > 0
            THEN split(Some(str_strip(SubSeq(address, 1, bang - 1), "'\"")),
                       SubSeq(address, bang + 1, Len(address)))
            ELSE split(None, address)
    IN qualified(str_find(address, "!"))

\* f"{_index_to_col(c)}{r}"
CellRef(c, r) == _index_to_col(c) \o ToString(r)

----------------------------------------------------------------------------
(* Data model and result envelope *)

Obj(r) == [object |-> r]

Arr(s) == [array |-> s]

\* ToolResult(success=True, value=value)
_ok(value) == [success |-> TRUE, value |-> value, error |-> None]

\* ToolResult(success=False, error=msg)
_error_result(msg) == [success |-> FALSE, value |-> None, error |-> Some(msg)]

\* isinstance(x, ToolResult)
IsToolResult(x) == "success" \in DOMAIN x

\* Sheet(name=name, position=position) with the dataclass defaults
Sheet(name, position) ==
    [name |-> name, cells |-> EmptyDict, formulas |-> EmptyDict, formats |-> EmptyDict,
     number_formats |-> EmptyDict, merged |-> <<>>, position |-> position,
     hyperlinks |-> EmptyDict, grouped_rows |-> <<>>]

\* the simulator object, as a record of its fields
Sim ==
    [sheets |-> sheets, active_sheet |-> active_sheet, tables |-> tables, charts |-> charts,
     comments |-> comments, conditional_formats |-> conditional_formats,
     data_validations |-> data_validations, named_ranges |-> named_ranges,
     chart_counter |-> chart_counter]

\* ExcelSimulator.__init__
NewSim ==
    [sheets |-> <<Sheet("Sheet1", 0)>>, active_sheet |-> "Sheet1", tables |-> EmptyDict,
     charts |-> EmptyDict, comments |-> <<>>, conditional_formats |-> <<>>,
     data_validations |-> <<>>, named_ranges |-> EmptyDict, chart_counter |-> 0]

\* keys of self.sheets
SheetNames(sim) == {sim.sheets[i].name : i \in DOMAIN sim.sheets}

\* `name in self.sheets`
HasSheet(sim, name) == name \in SheetNames(sim)

SheetIndex(sim, name) == CHOOSE i \in DOMAIN sim.sheets : sim.sheets[i].name = name

\* self.sheets[name]
GetSheet(sim, name) == sim.sheets[SheetIndex(sim, name)]

\* the sheet object at self.sheets[name] mutated in place
PutSheet(sim, name, sheet) == [sim EXCEPT !.sheets[SheetIndex(sim, name)] = sheet]

\* del self.sheets[name] / self.sheets.pop(name): the other keys keep their order
RemoveSheet(sim, name) ==
    LET without(i) == SubSeq(sim.sheets, 1, i - 1) \o SubSeq(sim.sheets, i + 1, Len(sim.sheets))
    IN without(SheetIndex(sim, name))

\* what a method call does: it returns a value or raises, leaving the simulator in a state
Return(sim, ret) == [sim |-> sim, ret |-> ret]

Raise(sim, exc) == [sim |-> sim, exc |-> exc]

Raised(out) == "exc" \in DOMAIN out

----------------------------------------------------------------------------
(* Sheet operations *)

\* a create_sheet without the collision check: an existing sheet is replaced by a new one
create_sheet_overwrites(sim, name) ==
    LET put(rest) ==
            Return([sim EXCEPT !.sheets = Append(rest, Sheet(name, Len(sim.sheets)))],
                   _ok(Obj([name |-> name, id |-> "sheet_" \o name,
                            position |-> Len(sim.sheets)])))
        keep(sh) == sh.name # name
    IN put(SelectSeq(sim.sheets, keep))

create_sheet(sim, name) ==
    IF HasSheet(sim, name)
    THEN Return(sim, _error_result("Sheet '" \o name \o "' already exists"))
    ELSE Return([sim EXCEPT !.sheets = Append(sim.sheets, Sheet(name, Len(sim.sheets)))],
                _ok(Obj([name |-> name, id |-> "sheet_" \o name,
                         position |-> Len(sim.sheets)])))

\* a rename_sheet that pops the sheet before it tests the new name
rename_sheet_pops_first(sim, current_name, new_name) ==
    IF ~HasSheet(sim, current_name)
    THEN Return(sim, _error_result("Sheet '" \o current_name \o "' not found"))
    ELSE IF HasSheet(sim, new_name)
    THEN Return([sim EXCEPT !.sheets = RemoveSheet(sim, current_name)],
                _error_result("Sheet '" \o new_name \o "' already exists"))
    ELSE Return([sim EXCEPT !.sheets = Append(RemoveSheet(sim, current_name),
                                              [GetSheet(sim, current_name) EXCEPT
                                                  !.name = new_name]),
                            !.active_sheet = IF sim.active_sheet = current_name
                                             THEN new_name ELSE sim.active_sheet],
                _ok(Obj([previousName |-> current_name, newName |-> new_name])))

rename_sheet(sim, current_name, new_name) ==
    IF ~HasSheet(sim, current_name)
    THEN Return(sim, _error_result("Sheet '" \o current_name \o "' not found"))
    ELSE IF HasSheet(sim, new_name)
    THEN Return(sim, _error_result("Sheet '" \o new_name \o "' already exists"))
    ELSE Return([sim EXCEPT !.sheets = Append(RemoveSheet(sim, current_name),
                                              [GetSheet(sim, current_name) EXCEPT
                                                  !.name = new_name]),
                            !.active_sheet = IF sim.active_sheet = current_name
                                             THEN new_name ELSE sim.active_sheet],
                _ok(Obj([previousName |-> current_name, newName |-> new_name])))

\* a delete_sheet without the last-sheet check
delete_sheet_allows_last(sim, name) ==
    LET drop(rest) ==
            Return([sim EXCEPT !.sheets = rest,
                               !.active_sheet = IF sim.active_sheet = name /\ rest # <<>>
                                                THEN rest[1].name ELSE sim.active_sheet],
                   _ok(Obj([deleted |-> name])))
    IN IF ~HasSheet(sim, name)
       THEN Return(sim, _error_result("Sheet '" \o name \o "' not found"))
       ELSE drop(RemoveSheet(sim, name))

\* delete_sheet without the fallback of active_sheet
delete_sheet_keeps_active(sim, name) ==
    IF ~HasSheet(sim, name)
    THEN Return(sim, _error_result("Sheet '" \o name \o "' not found"))
    ELSE IF Len(sim.sheets) <= 1
    THEN Return(sim, _error_result("Cannot delete the last sheet"))
    ELSE Return([sim EXCEPT !.sheets = RemoveSheet(sim, name)], _ok(Obj([deleted |-> name])))

\* a delete_sheet that also drops the comments recorded for the sheet
delete_sheet_drops_comments(sim, name) ==
    LET elsewhere(c) == c.sheet_name # name
        drop(rest) ==
            Return([sim EXCEPT !.sheets = rest,
                               !.active_sheet = IF sim.active_sheet = name
                                                THEN rest[1].name ELSE sim.active_sheet,
                               !.comments = SelectSeq(sim.comments, elsewhere)],
                   _ok(Obj([deleted |-> name])))
    IN IF ~HasSheet(sim, name)
       THEN Return(sim, _error_result("Sheet '" \o name \o "' not found"))
       ELSE IF Len(sim.sheets) <= 1
       THEN Return(sim, _error_result("Cannot delete the last sheet"))
       ELSE drop(RemoveSheet(sim, name))

delete_sheet(sim, name) ==
    LET drop(rest) ==
            Return([sim EXCEPT !.sheets = rest,
                               !.active_sheet = IF sim.active_sheet = name
                                                THEN rest[1].name ELSE sim.active_sheet],
                   _ok(Obj([deleted |-> name])))
    IN IF ~HasSheet(sim, name)
       THEN Return(sim, _error_result("Sheet '" \o name \o "' not found"))
       ELSE IF Len(sim.sheets) <= 1
       THEN Return(sim, _error_result("Cannot delete the last sheet"))
       ELSE drop(RemoveSheet(sim, name))

activate_sheet(sim, name) ==
    IF ~HasSheet(sim, name)
    THEN Return(sim, _error_result("Sheet '" \o name \o "' not found"))
    ELSE Return([sim EXCEPT !.active_sheet = name], _ok(Obj([activated |-> name])))

\* a copy_sheet that copies the cell values alone
copy_sheet_values_only(sim, name, new_name) ==
    LET copy(source, copied_name) ==
            IF HasSheet(sim, copied_name)
            THEN Return(sim, _error_result("Sheet '" \o copied_name \o "' already exists"))
            ELSE Return([sim EXCEPT !.sheets = Append(sim.sheets,
                             [Sheet(copied_name, source.position + 1) EXCEPT
                                 !.cells = source.cells])],
                        _ok(Obj([sourceSheet |-> name, copiedSheet |-> copied_name,
                                 position |-> source.position + 1])))
    IN IF ~HasSheet(sim, name)
       THEN Return(sim, _error_result("Sheet '" \o name \o "' not found"))
       ELSE copy(GetSheet(sim, name), Or(new_name, Some(name \o " (2)")).v)

copy_sheet(sim, name, new_name) ==
    LET copy(source, copied_name) ==
            IF HasSheet(sim, copied_name)
            THEN Return(sim, _error_result("Sheet '" \o copied_name \o "' already exists"))
            ELSE Return([sim EXCEPT !.sheets = Append(sim.sheets,
                             [Sheet(copied_name, source.position + 1) EXCEPT
                                 !.cells = source.cells, !.formulas = source.formulas,
                                 !.formats = source.formats,
                                 !.number_formats = source.number_formats,
                                 !.merged = source.merged])],
                        _ok(Obj([sourceSheet |-> name, copiedSheet |-> copied_name,
                                 position |-> source.position + 1])))
    IN IF ~HasSheet(sim, name)
       THEN Return(sim, _error_result("Sheet '" \o name \o "' not found"))
       ELSE copy(GetSheet(sim, name), Or(new_name, Some(name \o " (2)")).v)

move_sheet(sim, name, position) ==
    IF ~HasSheet(sim, name)
    THEN Return(sim, _error_result("Sheet '" \o name \o "' not found"))
    ELSE Return(PutSheet(sim, name, [GetSheet(sim, name) EXCEPT !.position = position]),
                _ok(Obj([name |-> name, position |-> position])))

----------------------------------------------------------------------------
(* Range operations *)

\* d.get(k, default)
SetMin(S) == CHOOSE x \in S : \A y \in S : x <= y

SetMax(S) == CHOOSE x \in S : \A y \in S : y <= x

DictGet(d, k, default) == IF k \in DOMAIN d THEN d[k] ELSE default

\* _resolve_sheet: the Sheet, or the failure ToolResult the callers test with isinstance
\* a resolution that falls back to the first sheet of the workbook
_resolve_sheet_first(sim, sheet_name) ==
    LET resolve(name) ==
            IF ~HasSheet(sim, name)
            THEN _error_result("Sheet '" \o name \o "' not found")
            ELSE GetSheet(sim, name)
    IN resolve(Or(sheet_name, Some(sim.sheets[1].name)).v)

_resolve_sheet(sim, sheet_name) ==
    LET resolve(name) ==
            IF ~HasSheet(sim, name)
            THEN _error_result("Sheet '" \o name \o "' not found")
            ELSE GetSheet(sim, name)
    IN resolve(Or(sheet_name, Some(sim.active_sheet)).v)

\* the rows x cols grid read from a dict of cells, "" for a missing key
\* a read that walks the columns in the outer loop
ReadGrid_by_columns(d, first_row, last_row, first_col, last_col) ==
    [c \in 1..(last_col - first_col + 1) |->
        [r \in 1..(last_row - first_row + 1) |->
            DictGet(d, CellRef(first_col + c - 1, first_row + r - 1), "")]]

ReadGrid(d, first_row, last_row, first_col, last_col) ==
    [r \in 1..(last_row - first_row + 1) |->
        [c \in 1..(last_col - first_col + 1) |->
            DictGet(d, CellRef(first_col + c - 1, first_row + r - 1), "")]]

get_range_values(sim, address, sheet_name) ==
    LET read(sheet, s, e) ==
            Return(sim, _ok(Arr(ReadGrid(sheet.cells, s.row, e.row,
                                         _col_to_index(s.col), _col_to_index(e.col)))))
        on(p, sheet) ==
            IF IsToolResult(sheet) THEN Return(sim, sheet)
            ELSE IF ~CellMatches(p.start) \/ ~CellMatches(p.end) THEN Raise(sim, "ValueError")
            ELSE read(sheet, _parse_cell(p.start), _parse_cell(p.end))
        parsed(p) == on(p, _resolve_sheet(sim, Or(p.sheet, sheet_name)))
    IN parsed(_parse_range(address))

\* max((len(r) for r in values), default=0)
MaxRowLen(values) ==
    IF values = <<>> THEN 0 ELSE SetMax({Len(values[i]) : i \in DOMAIN values})

\* the cells dict after sheet.cells[cell_ref] = val for every val of a 2D array
WriteGrid(d, values, base_col, start_row) ==
    LET ref(rc) == CellRef(base_col + rc[2] - 1, start_row + rc[1] - 1)
        put(at) ==
            [k \in DOMAIN d \cup {ref(rc) : rc \in at} |->
                IF \E rc \in at : ref(rc) = k
                THEN values[(CHOOSE rc \in at : ref(rc) = k)[1]][(CHOOSE rc \in at : ref(rc) = k)[2]]
                ELSE d[k]]
    IN put({rc \in (DOMAIN values) \X (1..MaxRowLen(values)) : rc[2] <= Len(values[rc[1]])})

set_range_values(sim, address, values, sheet_name) ==
    LET write(sheet, start, s, base_col, num_rows, num_cols) ==
            Return(PutSheet(sim, sheet.name,
                            [sheet EXCEPT !.cells = WriteGrid(sheet.cells, values, base_col, s.row)]),
                   _ok(Obj([address |-> start \o ":" \o CellRef(base_col + num_cols - 1,
                                                                 s.row + num_rows - 1),
                            rowsWritten |-> num_rows, columnsWritten |-> num_cols])))
        at(sheet, start, s) ==
            write(sheet, start, s, _col_to_index(s.col), Len(values), MaxRowLen(values))
        on(p, sheet) ==
            IF IsToolResult(sheet) THEN Return(sim, sheet)
            ELSE IF ~CellMatches(p.start) THEN Raise(sim, "ValueError")
            ELSE at(sheet, p.start, _parse_cell(p.start))
        parsed(p) == on(p, _resolve_sheet(sim, Or(p.sheet, sheet_name)))
    IN parsed(_parse_range(address))

\* a get_used_range that returns the values whether or not max_rows is given
get_used_range_always_values(sim, sheet_name, max_rows) ==
    LET values(sheet, min_col, max_col, min_row, total_rows, rows_to_read) ==
            IF FALSE THEN EmptyDict
            ELSE [values |-> ReadGrid(sheet.cells, min_row, min_row + rows_to_read - 1,
                                      min_col, max_col)]
                 @@ (IF ~max_rows.none /\ max_rows.v < total_rows
                     THEN [truncated |-> TRUE, rowsReturned |-> rows_to_read]
                     ELSE EmptyDict)
        box(sheet, min_col, max_col, min_row, max_row, total_rows) ==
            [address |-> CellRef(min_col, min_row) \o ":" \o CellRef(max_col, max_row),
             rowCount |-> total_rows, columnCount |-> max_col - min_col + 1]
            @@ values(sheet, min_col, max_col, min_row, total_rows,
                      IF max_rows.none \/ total_rows <= max_rows.v THEN total_rows ELSE max_rows.v)
        bounds(sheet, cols, rows) ==
            box(sheet, SetMin(cols), SetMax(cols), SetMin(rows), SetMax(rows),
                SetMax(rows) - SetMin(rows) + 1)
        used(sheet) ==
            IF IsToolResult(sheet) THEN Return(sim, sheet)
            ELSE IF DOMAIN sheet.cells = {}
            THEN Return(sim, _ok(Obj([address |-> "A1", rowCount |-> 1, columnCount |-> 1]
                                     @@ (IF FALSE THEN EmptyDict
                                         ELSE [values |-> <<<<"">>>>]))))
            ELSE Return(sim, _ok(Obj(bounds(sheet,
                     {_col_to_index(_parse_cell(ref).col) : ref \in DOMAIN sheet.cells},
                     {_parse_cell(ref).row : ref \in DOMAIN sheet.cells}))))
    IN used(_resolve_sheet(sim, sheet_name))

get_used_range(sim, sheet_name, max_rows) ==
    LET values(sheet, min_col, max_col, min_row, total_rows, rows_to_read) ==
            IF max_rows.none THEN EmptyDict
            ELSE [values |-> ReadGrid(sheet.cells, min_row, min_row + rows_to_read - 1,
                                      min_col, max_col)]
                 @@ (IF max_rows.v < total_rows
                     THEN [truncated |-> TRUE, rowsReturned |-> rows_to_read]
                     ELSE EmptyDict)
        box(sheet, min_col, max_col, min_row, max_row, total_rows) ==
            [address |-> CellRef(min_col, min_row) \o ":" \o CellRef(max_col, max_row),
             rowCount |-> total_rows, columnCount |-> max_col - min_col + 1]
            @@ values(sheet, min_col, max_col, min_row, total_rows,
                      IF max_rows.none \/ total_rows <= max_rows.v THEN total_rows ELSE max_rows.v)
        bounds(sheet, cols, rows) ==
            box(sheet, SetMin(cols), SetMax(cols), SetMin(rows), SetMax(rows),
                SetMax(rows) - SetMin(rows) + 1)
        used(sheet) ==
            IF IsToolResult(sheet) THEN Return(sim, sheet)
            ELSE IF DOMAIN sheet.cells = {}
            THEN Return(sim, _ok(Obj([address |-> "A1", rowCount |-> 1, columnCount |-> 1]
                                     @@ (IF max_rows.none THEN EmptyDict
                                         ELSE [values |-> <<<<"">>>>]))))
            ELSE Return(sim, _ok(Obj(bounds(sheet,
                     {_col_to_index(_parse_cell(ref).col) : ref \in DOMAIN sheet.cells},
                     {_parse_cell(ref).row : ref \in DOMAIN sheet.cells}))))
    IN used(_resolve_sheet(sim, sheet_name))

\* the refs of the block start..end, row by row
BlockRefs(s, e) ==
    {CellRef(c, r) : c \in _col_to_index(s.col).._col_to_index(e.col), r \in s.row..e.row}

set_number_format(sim, address, format_code, sheet_name) ==
    LET apply(sheet, refs) ==
            Return(PutSheet(sim, sheet.name,
                            [sheet EXCEPT !.number_formats =
                                [k \in DOMAIN sheet.number_formats \cup refs |->
                                    IF k \in refs THEN format_code ELSE sheet.number_formats[k]]]),
                   _ok(Obj([address |-> address, numberFormat |-> format_code])))
        on(p, sheet) ==
            IF IsToolResult(sheet) THEN Return(sim, sheet)
            ELSE IF ~CellMatches(p.start) \/ ~CellMatches(p.end) THEN Raise(sim, "ValueError")
            ELSE apply(sheet, BlockRefs(_parse_cell(p.start), _parse_cell(p.end)))
        parsed(p) == on(p, _resolve_sheet(sim, Or(p.sheet, sheet_name)))
    IN parsed(_parse_range(address))

clear_range(sim, address, sheet_name) ==
    LET without(d, refs) == [k \in DOMAIN d \ refs |-> d[k]]
        clear(sheet, refs) ==
            Return(PutSheet(sim, sheet.name,
                            [sheet EXCEPT !.cells = without(sheet.cells, refs),
                                          !.formulas = without(sheet.formulas, refs),
                                          !.formats = without(sheet.formats, refs)]),
                   _ok(Obj([address |-> address,
                            cellsCleared |-> Cardinality(refs \cap DOMAIN sheet.cells)])))
        on(p, sheet) ==
            IF IsToolResult(sheet) THEN Return(sim, sheet)
            ELSE IF ~CellMatches(p.start) \/ ~CellMatches(p.end) THEN Raise(sim, "ValueError")
            ELSE clear(sheet, BlockRefs(_parse_cell(p.start), _parse_cell(p.end)))
        parsed(p) == on(p, _resolve_sheet(sim, Or(p.sheet, sheet_name)))
    IN parsed(_parse_range(address))

\* list(fmt.keys()) for the keyword dict of a call (the calls modelled pass at most one)
KeyList(fmt) ==
    CHOOSE s \in [1..Cardinality(DOMAIN fmt) -> DOMAIN fmt] :
        \A i, j \in DOMAIN s : s[i] = s[j] => i = j

format_range(sim, address, sheet_name, fmt) ==
    LET apply(sheet, refs) ==
            Return(PutSheet(sim, sheet.name,
                            [sheet EXCEPT !.formats =
                                [k \in DOMAIN sheet.formats \cup refs |->
                                    IF k \in refs THEN fmt @@ DictGet(sheet.formats, k, EmptyDict)
                                    ELSE sheet.formats[k]]]),
                   _ok(Obj([address |-> address, formatsApplied |-> KeyList(fmt)])))
        on(p, sheet) ==
            IF IsToolResult(sheet) THEN Return(sim, sheet)
            ELSE IF ~CellMatches(p.start) \/ ~CellMatches(p.end) THEN Raise(sim, "ValueError")
            ELSE apply(sheet, BlockRefs(_parse_cell(p.start), _parse_cell(p.end)))
        parsed(p) == on(p, _resolve_sheet(sim, Or(p.sheet, sheet_name)))
    IN parsed(_parse_range(address))

\* a copy that writes the grid to the sheet it was read from
copy_range_within_source(sim, source_address, destination_address, source_sheet_name, destination_sheet_name) ==
    LET after(src_result) ==
            IF Raised(src_result) THEN src_result
            ELSE IF ~src_result.ret.success THEN src_result
            ELSE set_range_values(src_result.sim, destination_address,
                                  src_result.ret.value.array, source_sheet_name)
    IN after(get_range_values(sim, source_address, source_sheet_name))

copy_range(sim, source_address, destination_address, source_sheet_name, destination_sheet_name) ==
    LET after(src_result) ==
            IF Raised(src_result) THEN src_result
            ELSE IF ~src_result.ret.success THEN src_result
            ELSE set_range_values(src_result.sim, destination_address,
                                  src_result.ret.value.array, destination_sheet_name)
    IN after(get_range_values(sim, source_address, source_sheet_name))

merge_cells(sim, address, across, sheet_name) ==
    LET on(sheet) ==
            IF IsToolResult(sheet) THEN Return(sim, sheet)
            ELSE Return(PutSheet(sim, sheet.name,
                                 [sheet EXCEPT !.merged = Append(sheet.merged, address)]),
                        _ok(Obj([address |-> address, merged |-> TRUE])))
    IN on(_resolve_sheet(sim, sheet_name))

unmerge_cells(sim, address, sheet_name) ==
    LET other(m) == m # address
        on(sheet) ==
            IF IsToolResult(sheet) THEN Return(sim, sheet)
            ELSE Return(PutSheet(sim, sheet.name,
                                 [sheet EXCEPT !.merged = SelectSeq(sheet.merged, other)]),
                        _ok(Obj([address |-> address, unmerged |-> TRUE])))
    IN on(_resolve_sheet(sim, sheet_name))

----------------------------------------------------------------------------
(* Conditional formats, data validations, pivot tables *)

add_conditional_format(sim, rule_type, address, sheet_name, kwparams) ==
    Return([sim EXCEPT !.conditional_formats =
                Append(sim.conditional_formats,
                       [rule_type |-> rule_type, address |-> address,
                        sheet_name |-> Or(sheet_name, Some(sim.active_sheet)).v,
                        params |-> kwparams])],
           _ok(Obj([ruleType |-> rule_type, address |-> address, applied |-> TRUE])))

\* a set_data_validation that appends without removing the pair's previous record
set_data_validation_appends(sim, validation_type, address, sheet_name, kwparams) ==
    LET set(sn) ==
            Return([sim EXCEPT !.data_validations =
                        Append(sim.data_validations,
                               [validation_type |-> validation_type, address |-> address,
                                sheet_name |-> sn, params |-> kwparams])],
                   _ok(Obj([validationType |-> validation_type, address |-> address,
                            applied |-> TRUE])))
    IN set(Or(sheet_name, Some(sim.active_sheet)).v)

set_data_validation(sim, validation_type, address, sheet_name, kwparams) ==
    LET set(sn) ==
            LET other(v) == ~(v.address = address /\ v.sheet_name = sn)
            IN Return([sim EXCEPT !.data_validations =
                           Append(SelectSeq(sim.data_validations, other),
                                  [validation_type |-> validation_type, address |-> address,
                                   sheet_name |-> sn, params |-> kwparams])],
                      _ok(Obj([validationType |-> validation_type, address |-> address,
                               applied |-> TRUE])))
    IN set(Or(sheet_name, Some(sim.active_sheet)).v)

get_data_validation(sim, address, sheet_name) ==
    LET answer(found) ==
            IF found # <<>>
            THEN Return(sim, _ok(Obj([validationType |-> Some(found[1].validation_type),
                                      address |-> address, params |-> found[1].params])))
            ELSE Return(sim, _ok(Obj([address |-> address, validationType |-> None,
                                      message |-> "No validation set"])))
        scan(sn) ==
            LET hit(v) == v.address = address /\ v.sheet_name = sn
            IN answer(SelectSeq(sim.data_validations, hit))
    IN scan(Or(sheet_name, Some(sim.active_sheet)).v)

list_pivot_tables(sim, sheet_name) == Return(sim, _ok(Arr(<<>>)))

\* the body is the bare expression `re`: the method falls off its end and returns None
refresh_pivot_table(sim, pivot_table_name, sheet_name) == Return(sim, None)

----------------------------------------------------------------------------
(* Tables, charts, named ranges, comments *)

\* `name in self.tables` (self.charts, self.named_ranges): the dict as the sequence of its
\* values in insertion order, each value carrying its key as .name
HasKey(entities, name) == \E i \in DOMAIN entities : entities[i].name = name

\* self.tables[name]
Lookup(entities, name) == entities[CHOOSE i \in DOMAIN entities : entities[i].name = name]

\* self.named_ranges[name] = entity: a new key goes last, an existing key keeps its place
Store(entities, entity) ==
    IF HasKey(entities, entity.name)
    THEN [i \in DOMAIN entities |->
             IF entities[i].name = entity.name THEN entity ELSE entities[i]]
    ELSE Append(entities, entity)

\* del self.tables[name]
Remove(entities, name) == LET keep(e) == e.name # name IN SelectSeq(entities, keep)

\* a create_table that replaces an existing table of the same name
create_table_replaces(sim, address, name, has_headers, sheet_name) ==
    LET create(sn, tbl_name) ==
            Return([sim EXCEPT !.tables =
                        Store(sim.tables,
                              [name |-> tbl_name, address |-> address, sheet_name |-> sn,
                               has_headers |-> IF has_headers.none THEN TRUE
                                               ELSE has_headers.v])],
                   _ok(Obj([name |-> tbl_name, id |-> "tbl_" \o tbl_name,
                            address |-> address])))
    IN create(Or(sheet_name, Some(sim.active_sheet)).v,
              Or(name, Some("Table" \o ToString(Len(sim.tables) + 1))).v)

create_table(sim, address, name, has_headers, sheet_name) ==
    LET create(sn, tbl_name) ==
            IF HasKey(sim.tables, tbl_name)
            THEN Return(sim, _error_result("Table '" \o tbl_name \o "' already exists"))
            ELSE Return([sim EXCEPT !.tables =
                             Store(sim.tables,
                                   [name |-> tbl_name, address |-> address, sheet_name |-> sn,
                                    has_headers |-> IF has_headers.none THEN TRUE
                                                    ELSE has_headers.v])],
                        _ok(Obj([name |-> tbl_name, id |-> "tbl_" \o tbl_name,
                                 address |-> address])))
    IN create(Or(sheet_name, Some(sim.active_sheet)).v,
              Or(name, Some("Table" \o ToString(Len(sim.tables) + 1))).v)

\* `if table_name not in self.tables: return self._error_result(...)`
TableNotFound(sim, table_name) ==
    Return(sim, _error_result("Table '" \o table_name \o "' not found"))

add_table_rows(sim, table_name, values) ==
    IF ~HasKey(sim.tables, table_name) THEN TableNotFound(sim, table_name)
    ELSE Return(sim, _ok(Obj([tableName |-> table_name, rowsAdded |-> Len(values)])))

\* a get_table_data that reads the table's block without naming the table's sheet
get_table_data_on_active(sim, table_name) ==
    LET wrap(table, out) ==
            IF Raised(out) \/ ~out.ret.success THEN out
            ELSE Return(sim, _ok(Obj([tableName |-> table_name, address |-> table.address,
                                      values |-> out.ret.value])))
        read(table) == wrap(table, get_range_values(sim, table.address, None))
    IN IF ~HasKey(sim.tables, table_name) THEN TableNotFound(sim, table_name)
       ELSE read(Lookup(sim.tables, table_name))

get_table_data(sim, table_name) ==
    LET wrap(table, out) ==
            IF Raised(out) \/ ~out.ret.success THEN out
            ELSE Return(sim, _ok(Obj([tableName |-> table_name, address |-> table.address,
                                      values |-> out.ret.value])))
        read(table) == wrap(table, get_range_values(sim, table.address, Some(table.sheet_name)))
    IN IF ~HasKey(sim.tables, table_name) THEN TableNotFound(sim, table_name)
       ELSE read(Lookup(sim.tables, table_name))

\* a delete_table that reports success for a table that does not exist
delete_table_silent(sim, table_name) ==
    Return([sim EXCEPT !.tables = Remove(sim.tables, table_name)],
           _ok(Obj([deleted |-> table_name])))

delete_table(sim, table_name) ==
    IF ~HasKey(sim.tables, table_name) THEN TableNotFound(sim, table_name)
    ELSE Return([sim EXCEPT !.tables = Remove(sim.tables, table_name)],
                _ok(Obj([deleted |-> table_name])))

sort_table(sim, table_name, column, ascending) ==
    IF ~HasKey(sim.tables, table_name) THEN TableNotFound(sim, table_name)
    ELSE Return(sim, _ok(Obj([tableName |-> table_name, sortedByColumn |-> column,
                              ascending |-> IF ascending.none THEN TRUE ELSE ascending.v])))

filter_table(sim, table_name, column, values) ==
    IF ~HasKey(sim.tables, table_name) THEN TableNotFound(sim, table_name)
    ELSE Return(sim, _ok(Obj([tableName |-> table_name, filteredColumn |-> column,
                              filterValues |-> values])))

clear_table_filters(sim, table_name) ==
    IF ~HasKey(sim.tables, table_name) THEN TableNotFound(sim, table_name)
    ELSE Return(sim, _ok(Obj([tableName |-> table_name, filtersCleared |-> TRUE])))

\* on an existing table `self.tables[table_name].columns` is evaluated, and the Table
\* dataclass has no such field
add_table_column(sim, table_name, column_name, column_data) ==
    IF ~HasKey(sim.tables, table_name) THEN TableNotFound(sim, table_name)
    ELSE Raise(sim, "AttributeError")

delete_table_column(sim, table_name, column_name) ==
    IF ~HasKey(sim.tables, table_name) THEN TableNotFound(sim, table_name)
    ELSE Return(sim, _ok(Obj([tableName |-> table_name, columnName |-> column_name,
                              deleted |-> TRUE])))

convert_table_to_range(sim, table_name) ==
    IF ~HasKey(sim.tables, table_name) THEN TableNotFound(sim, table_name)
    ELSE Return([sim EXCEPT !.tables = Remove(sim.tables, table_name)],
                _ok(Obj([tableName |-> table_name,
                         rangeAddress |-> Lookup(sim.tables, table_name).address,
                         converted |-> TRUE])))

\* a create_chart that names the new chart after the number of charts held
create_chart_counts_charts(sim, data_range, chart_type, title, sheet_name) ==
    LET create(sn, name, shown) ==
            Return([sim EXCEPT !.chart_counter = sim.chart_counter + 1,
                               !.charts = Store(sim.charts,
                                                [name |-> name, chart_type |-> chart_type,
                                                 data_range |-> data_range, sheet_name |-> sn,
                                                 title |-> shown])],
                   _ok(Obj([name |-> name, chartType |-> chart_type, title |-> shown,
                            dataRange |-> data_range])))
    IN create(Or(sheet_name, Some(sim.active_sheet)).v,
              "Chart " \o ToString(Len(sim.charts) + 1), Or(title, Some("")).v)

create_chart(sim, data_range, chart_type, title, sheet_name) ==
    LET create(sn, name, shown) ==
            Return([sim EXCEPT !.chart_counter = sim.chart_counter + 1,
                               !.charts = Store(sim.charts,
                                                [name |-> name, chart_type |-> chart_type,
                                                 data_range |-> data_range, sheet_name |-> sn,
                                                 title |-> shown])],
                   _ok(Obj([name |-> name, chartType |-> chart_type, title |-> shown,
                            dataRange |-> data_range])))
    IN create(Or(sheet_name, Some(sim.active_sheet)).v,
              "Chart " \o ToString(sim.chart_counter + 1), Or(title, Some("")).v)

\* `if chart_name not in self.charts: return self._error_result(...)`
ChartNotFound(sim, chart_name) ==
    Return(sim, _error_result("Chart '" \o chart_name \o "' not found"))

\* self.charts[chart_name].<field> = value
SetChartField(sim, chart_name, changed) ==
    [sim EXCEPT !.charts = Store(sim.charts, changed @@ Lookup(sim.charts, chart_name))]

delete_chart(sim, chart_name, sheet_name) ==
    IF ~HasKey(sim.charts, chart_name) THEN ChartNotFound(sim, chart_name)
    ELSE Return([sim EXCEPT !.charts = Remove(sim.charts, chart_name)],
                _ok(Obj([deleted |-> chart_name])))

set_chart_title(sim, chart_name, title, sheet_name) ==
    IF ~HasKey(sim.charts, chart_name) THEN ChartNotFound(sim, chart_name)
    ELSE Return(SetChartField(sim, chart_name, [title |-> title]),
                _ok(Obj([chartName |-> chart_name, title |-> title])))

set_chart_type(sim, chart_name, chart_type, sheet_name) ==
    IF ~HasKey(sim.charts, chart_name) THEN ChartNotFound(sim, chart_name)
    ELSE Return(SetChartField(sim, chart_name, [chart_type |-> chart_type]),
                _ok(Obj([chartName |-> chart_name, chartType |-> chart_type])))

set_chart_data_source(sim, chart_name, data_range, sheet_name) ==
    IF ~HasKey(sim.charts, chart_name) THEN ChartNotFound(sim, chart_name)
    ELSE Return(SetChartField(sim, chart_name, [data_range |-> data_range]),
                _ok(Obj([chartName |-> chart_name, dataRange |-> data_range,
                         updated |-> TRUE])))

define_named_range(sim, name, address, sheet_name) ==
    Return([sim EXCEPT !.named_ranges =
                Store(sim.named_ranges,
                      [name |-> name, address |-> address,
                       sheet_name |-> Or(sheet_name, Some(sim.active_sheet)).v])],
           _ok(Obj([name |-> name, address |-> address, comment |-> ""])))

add_comment(sim, cell_address, text, sheet_name) ==
    LET add(sn) ==
            Return([sim EXCEPT !.comments =
                        Append(sim.comments,
                               [cell_address |-> cell_address, text |-> text,
                                sheet_name |-> sn])],
                   _ok(Obj([cellAddress |-> cell_address, text |-> text, sheetName |-> sn])))
    IN add(Or(sheet_name, Some(sim.active_sheet)).v)

\* the indices of the comments at (cell_address, sheet_name or the active sheet)
CommentsAt(sim, cell_address, sheet_name) ==
    {i \in DOMAIN sim.comments :
        /\ sim.comments[i].cell_address = cell_address
        /\ sim.comments[i].sheet_name = Or(sheet_name, Some(sim.active_sheet)).v}

edit_comment(sim, cell_address, new_text, sheet_name) ==
    LET edit(at) ==
            IF at = {} THEN Return(sim, _error_result("No comment at " \o cell_address))
            ELSE Return([sim EXCEPT !.comments[SetMin(at)].text = new_text],
                        _ok(Obj([cellAddress |-> cell_address, newText |-> new_text])))
    IN edit(CommentsAt(sim, cell_address, sheet_name))

delete_comment(sim, cell_address, sheet_name) ==
    LET pop(i) == SubSeq(sim.comments, 1, i - 1) \o SubSeq(sim.comments, i + 1, Len(sim.comments))
        delete(at) ==
            IF at = {} THEN Return(sim, _error_result("No comment at " \o cell_address))
            ELSE Return([sim EXCEPT !.comments = pop(SetMin(at))],
                        _ok(Obj([deleted |-> cell_address])))
    IN delete(CommentsAt(sim, cell_address, sheet_name))

----------------------------------------------------------------------------
(* Formulas, search and replace, acknowledgements and listings *)

\* the value of an optional argument, or the default of its parameter
Default(o, d) == IF o.none THEN d ELSE o.v

RECURSIVE str_lower(_)
str_lower(s) == IF s = "" THEN "" ELSE lower_char(Char(s, 1)) \o str_lower(SubSeq(s, 2, Len(s)))

\* `sub in s`
Contains(s, sub) == str_find(s, sub) > 0

\* a set_range_formulas that records the formula without writing the cell
set_range_formulas_formula_only(sim, address, formulas, sheet_name) ==
    LET write(sheet, s) ==
            Return(PutSheet(sim, sheet.name,
                            [sheet EXCEPT
                                !.formulas = WriteGrid(sheet.formulas, formulas,
                                                       _col_to_index(s.col), s.row)]),
                   _ok(Obj([address |-> address, formulasSet |-> Len(formulas)])))
        on(p, sheet) ==
            IF IsToolResult(sheet) THEN Return(sim, sheet)
            ELSE IF ~CellMatches(p.start) THEN Raise(sim, "ValueError")
            ELSE write(sheet, _parse_cell(p.start))
        parsed(p) == on(p, _resolve_sheet(sim, Or(p.sheet, sheet_name)))
    IN parsed(_parse_range(address))

set_range_formulas(sim, address, formulas, sheet_name) ==
    LET shown == [r \in DOMAIN formulas |->
                     [c \in DOMAIN formulas[r] |-> "[formula:" \o formulas[r][c] \o "]"]]
        write(sheet, s) ==
            Return(PutSheet(sim, sheet.name,
                            [sheet EXCEPT
                                !.formulas = WriteGrid(sheet.formulas, formulas,
                                                       _col_to_index(s.col), s.row),
                                !.cells = WriteGrid(sheet.cells, shown,
                                                    _col_to_index(s.col), s.row)]),
                   _ok(Obj([address |-> address, formulasSet |-> Len(formulas)])))
        on(p, sheet) ==
            IF IsToolResult(sheet) THEN Return(sim, sheet)
            ELSE IF ~CellMatches(p.start) THEN Raise(sim, "ValueError")
            ELSE write(sheet, _parse_cell(p.start))
        parsed(p) == on(p, _resolve_sheet(sim, Or(p.sheet, sheet_name)))
    IN parsed(_parse_range(address))

get_range_formulas(sim, address, sheet_name) ==
    LET read(sheet, s, e) ==
            Return(sim, _ok(Arr(ReadGrid(sheet.formulas, s.row, e.row,
                                         _col_to_index(s.col), _col_to_index(e.col)))))
        on(p, sheet) ==
            IF IsToolResult(sheet) THEN Return(sim, sheet)
            ELSE IF ~CellMatches(p.start) \/ ~CellMatches(p.end) THEN Raise(sim, "ValueError")
            ELSE read(sheet, _parse_cell(p.start), _parse_cell(p.end))
        parsed(p) == on(p, _resolve_sheet(sim, Or(p.sheet, sheet_name)))
    IN parsed(_parse_range(address))

\* a sort_range that swaps the first two rows of column A
sort_range_swapping(sim, address, column, ascending, has_headers, sheet_name) ==
    LET sheet == GetSheet(sim, sim.active_sheet)
        swapped(d) ==
            [k \in DOMAIN d |-> IF k = "A1" THEN DictGet(d, "A2", d[k])
                                ELSE IF k = "A2" THEN DictGet(d, "A1", d[k]) ELSE d[k]]
    IN Return(PutSheet(sim, sheet.name, [sheet EXCEPT !.cells = swapped(sheet.cells)]),
              _ok(Obj([address |-> address, sortedByColumn |-> Default(column, 0),
                       ascending |-> Default(ascending, TRUE)])))

sort_range(sim, address, column, ascending, has_headers, sheet_name) ==
    Return(sim, _ok(Obj([address |-> address, sortedByColumn |-> Default(column, 0),
                         ascending |-> Default(ascending, TRUE)])))

\* the matches of find_values; the list is in the insertion order of sheet.cells, which
\* the cells of this model do not keep, so the matches are given as a set
find_values(sim, searchValue, address, sheet_name, match_case) ==
    LET fold(s) == IF Default(match_case, FALSE) THEN s ELSE str_lower(s)
        find(sheet) ==
            Return(sim, _ok([matches |->
                                {[address |-> ref, value |-> sheet.cells[ref]] :
                                    ref \in {k \in DOMAIN sheet.cells :
                                                Contains(fold(sheet.cells[k]),
                                                         fold(searchValue))}}]))
        on(sheet) == IF IsToolResult(sheet) THEN Return(sim, sheet) ELSE find(sheet)
    IN on(_resolve_sheet(sim, sheet_name))

insert_range(sim, address, shift, sheet_name) ==
    Return(sim, _ok(Obj([address |-> address, shift |-> shift, inserted |-> TRUE])))

delete_range(sim, address, shift, sheet_name) ==
    Return(sim, _ok(Obj([address |-> address, shift |-> shift, deleted |-> TRUE])))

auto_fit_columns(sim, address, sheet_name) ==
    Return(sim, _ok(Obj([address |-> address, autoFitColumns |-> TRUE])))

auto_fit_rows(sim, address, sheet_name) ==
    Return(sim, _ok(Obj([address |-> address, autoFitRows |-> TRUE])))

\* a replace_values that counts a cell only when its text holds find in find's own case
replace_values_counts_exact(sim, find, replace, address, sheet_name) ==
    LET hit(sheet) == {k \in DOMAIN sheet.cells : Contains(sheet.cells[k], find)}
        replaced(sheet) ==
            [k \in DOMAIN sheet.cells |->
                IF k \in hit(sheet) THEN str_replace(sheet.cells[k], find, replace)
                ELSE sheet.cells[k]]
        run(sheet) ==
            Return(PutSheet(sim, sheet.name, [sheet EXCEPT !.cells = replaced(sheet)]),
                   _ok(Obj([find |-> find, replace |-> replace,
                            replacements |-> Cardinality(hit(sheet))])))
        on(sheet) == IF IsToolResult(sheet) THEN Return(sim, sheet) ELSE run(sheet)
    IN on(_resolve_sheet(sim, sheet_name))

\* cell values of the model are strings, for which str(val) is val
replace_values(sim, find, replace, address, sheet_name) ==
    LET hit(sheet) ==
            {k \in DOMAIN sheet.cells : Contains(str_lower(sheet.cells[k]), str_lower(find))}
        replaced(sheet) ==
            [k \in DOMAIN sheet.cells |->
                IF k \in hit(sheet) THEN str_replace(sheet.cells[k], find, replace)
                ELSE sheet.cells[k]]
        run(sheet) ==
            Return(PutSheet(sim, sheet.name, [sheet EXCEPT !.cells = replaced(sheet)]),
                   _ok(Obj([find |-> find, replace |-> replace,
                            replacements |-> Cardinality(hit(sheet))])))
        on(sheet) == IF IsToolResult(sheet) THEN Return(sim, sheet) ELSE run(sheet)
    IN on(_resolve_sheet(sim, sheet_name))

remove_duplicates(sim, address, columns, sheet_name) ==
    Return(sim, _ok(Obj([address |-> address, rowsRemoved |-> 0, rowsRemaining |-> 0])))

toggle_row_column_visibility(sim, address, hidden, target, sheet_name) ==
    LET on(sheet) ==
            IF IsToolResult(sheet) THEN Return(sim, sheet)
            ELSE Return(sim, _ok(Obj([address |-> address, target |-> target,
                                      hidden |-> hidden])))
    IN on(_resolve_sheet(sim, sheet_name))

set_cell_borders(sim, address, border_style, border_color, side, sheet_name) ==
    Return(sim, _ok(Obj([address |-> address, borderStyle |-> border_style, side |-> side,
                         color |-> Or(border_color, Some("000000")).v])))

\* sorted(self.sheets.values(), key=lambda s: s.position): a stable sort
RECURSIVE sorted_by_position(_)
sorted_by_position(s) ==
    LET least == CHOOSE i \in DOMAIN s :
                     /\ \A j \in DOMAIN s : s[i].position <= s[j].position
                     /\ \A j \in 1..(i - 1) : s[j].position > s[i].position
        rest(i) == SubSeq(s, 1, i - 1) \o SubSeq(s, i + 1, Len(s))
    IN IF s = <<>> THEN <<>> ELSE <<s[least]>> \o sorted_by_position(rest(least))

list_sheets(sim) ==
    LET shown(s) == [name |-> s.name, position |-> s.position,
                     isActive |-> s.name = sim.active_sheet]
        listed(s) == [i \in DOMAIN s |-> shown(s[i])]
    IN Return(sim, _ok(Arr(listed(sorted_by_position(sim.sheets)))))

\* the records of an entity collection owned by sheet sn, each as shown(record)
Listed(records, sn, shown(_)) ==
    LET owned(r) == r.sheet_name = sn
        kept == SelectSeq(records, owned)
    IN Arr([i \in DOMAIN kept |-> shown(kept[i])])

\* the records of an entity collection, filtered by `if sheet_name:`
ListedIfGiven(records, sheet_name, shown(_)) ==
    IF Truthy(sheet_name) THEN Listed(records, sheet_name.v, shown)
    ELSE Arr([i \in DOMAIN records |-> shown(records[i])])

list_tables(sim, sheet_name) ==
    LET shown(t) == [name |-> t.name, id |-> "tbl_" \o t.name, address |-> t.address,
                     worksheetName |-> t.sheet_name]
    IN Return(sim, _ok(ListedIfGiven(sim.tables, sheet_name, shown)))

list_charts(sim, sheet_name) ==
    LET shown(c) == [name |-> c.name, chartType |-> c.chart_type, dataRange |-> c.data_range,
                     title |-> c.title]
    IN Return(sim, _ok(ListedIfGiven(sim.charts, sheet_name, shown)))

get_workbook_info(sim) ==
    LET shown(s) == [name |-> s.name, position |-> s.position]
        listed(s) == [i \in DOMAIN s |-> shown(s[i])]
    IN Return(sim, _ok(Obj([activeSheet |-> sim.active_sheet,
                            sheets |-> listed(sorted_by_position(sim.sheets)),
                            tableCount |-> Len(sim.tables), chartCount |-> Len(sim.charts),
                            namedRangeCount |-> Len(sim.named_ranges)])))

recalculate_workbook(sim, recalc_type) ==
    Return(sim, _ok(Obj([recalculated |-> TRUE, type |-> Or(recalc_type, Some("Full")).v])))

get_selected_range(sim) ==
    Return(sim, _ok(Obj([address |-> "A1", values |-> <<<<"">>>>,
                         sheetName |-> sim.active_sheet])))

list_named_ranges(sim) ==
    LET shown(n) == [name |-> n.name, address |-> n.address, sheetName |-> n.sheet_name]
    IN Return(sim, _ok(Arr([i \in DOMAIN sim.named_ranges |-> shown(sim.named_ranges[i])])))

list_comments(sim, sheet_name) ==
    LET shown(c) == [cellAddress |-> c.cell_address, text |-> c.text]
    IN Return(sim, _ok(Listed(sim.comments, Or(sheet_name, Some(sim.active_sheet)).v, shown)))

list_conditional_formats(sim, address, sheet_name) ==
    LET shown(cf) == [ruleType |-> cf.rule_type, address |-> cf.address, params |-> cf.params]
    IN Return(sim, _ok(Listed(sim.conditional_formats,
                              Or(sheet_name, Some(sim.active_sheet)).v, shown)))

----------------------------------------------------------------------------
(* Tool routing and parameter remapping *)

\* one entry of a flat argument mapping, in call order
KW(k, v) == [k |-> k, v |-> v]

Route(method_name, remap) == [method |-> method_name, remap |-> remap]

\* the routes of the simulator methods modelled here
_TOOL_ROUTES ==
    ("get_range_values" :> Route("get_range_values", None)) @@
    ("set_range_values" :> Route("set_range_values", None)) @@
    ("get_used_range" :> Route("get_used_range", Some("maxRows" :> "max_rows"))) @@
    ("set_number_format" :> Route("set_number_format", Some("formatCode" :> "format_code"))) @@
    ("clear_range" :> Route("clear_range", None)) @@
    ("format_range" :> Route("format_range", None)) @@
    ("copy_range" :>
        Route("copy_range",
              Some(("sourceAddress" :> "source_address") @@
                   ("destinationAddress" :> "destination_address") @@
                   ("sourceSheetName" :> "source_sheet_name") @@
                   ("destinationSheetName" :> "destination_sheet_name")))) @@
    ("merge_cells" :> Route("merge_cells", None)) @@
    ("unmerge_cells" :> Route("unmerge_cells", None)) @@
    ("create_sheet" :> Route("create_sheet", Some("name" :> "name"))) @@
    ("rename_sheet" :> Route("rename_sheet", Some(("currentName" :> "current_name") @@
                                                  ("newName" :> "new_name")))) @@
    ("delete_sheet" :> Route("delete_sheet", Some("name" :> "name"))) @@
    ("activate_sheet" :> Route("activate_sheet", Some("name" :> "name"))) @@
    ("copy_sheet" :> Route("copy_sheet", Some(("name" :> "name") @@ ("newName" :> "new_name")))) @@
    ("move_sheet" :> Route("move_sheet", Some("name" :> "name"))) @@
    ("add_color_scale" :> Route("add_conditional_format", None)) @@
    ("add_data_bar" :> Route("add_conditional_format", None)) @@
    ("add_cell_value_format" :> Route("add_conditional_format", None)) @@
    ("add_top_bottom_format" :> Route("add_conditional_format", None)) @@
    ("add_contains_text_format" :> Route("add_conditional_format", None)) @@
    ("add_custom_format" :> Route("add_conditional_format", None)) @@
    ("set_list_validation" :> Route("set_data_validation", None)) @@
    ("set_number_validation" :> Route("set_data_validation", None)) @@
    ("set_date_validation" :> Route("set_data_validation", None)) @@
    ("set_text_length_validation" :> Route("set_data_validation", None)) @@
    ("set_custom_validation" :> Route("set_data_validation", None)) @@
    ("create_table" :>
        Route("create_table",
              Some(("hasHeaders" :> "has_headers") @@
                   ("sheetName" :> "sheet_name")))) @@
    ("add_table_rows" :> Route("add_table_rows", Some("tableName" :> "table_name"))) @@
    ("get_table_data" :> Route("get_table_data", Some("tableName" :> "table_name"))) @@
    ("delete_table" :> Route("delete_table", Some("tableName" :> "table_name"))) @@
    ("sort_table" :> Route("sort_table", Some("tableName" :> "table_name"))) @@
    ("filter_table" :> Route("filter_table", Some("tableName" :> "table_name"))) @@
    ("add_table_column" :>
        Route("add_table_column",
              Some(("tableName" :> "table_name") @@
                   ("columnName" :> "column_name") @@
                   ("columnData" :> "column_data")))) @@
    ("delete_table_column" :>
        Route("delete_table_column",
              Some(("tableName" :> "table_name") @@
                   ("columnName" :> "column_name")))) @@
    ("convert_table_to_range" :>
        Route("convert_table_to_range",
              Some("tableName" :> "table_name"))) @@
    ("clear_table_filters" :>
        Route("clear_table_filters",
              Some("tableName" :> "table_name"))) @@
    ("set_chart_title" :> Route("set_chart_title", Some("chartName" :> "chart_name"))) @@
    ("set_chart_type" :>
        Route("set_chart_type",
              Some(("chartName" :> "chart_name") @@
                   ("chartType" :> "chart_type")))) @@
    ("set_chart_data_source" :>
        Route("set_chart_data_source",
              Some(("chartName" :> "chart_name") @@
                   ("dataRange" :> "data_range")))) @@
    ("create_chart" :>
        Route("create_chart",
              Some(("dataRange" :> "data_range") @@
                   ("chartType" :> "chart_type") @@
                   ("sheetName" :> "sheet_name")))) @@
    ("delete_chart" :>
        Route("delete_chart",
              Some(("chartName" :> "chart_name") @@
                   ("sheetName" :> "sheet_name")))) @@
    ("define_named_range" :> Route("define_named_range", Some("sheetName" :> "sheet_name"))) @@
    ("add_comment" :>
        Route("add_comment",
              Some(("cellAddress" :> "cell_address") @@
                   ("sheetName" :> "sheet_name")))) @@
    ("edit_comment" :>
        Route("edit_comment",
              Some(("cellAddress" :> "cell_address") @@
                   ("newText" :> "new_text") @@
                   ("sheetName" :> "sheet_name")))) @@
    ("delete_comment" :>
        Route("delete_comment",
              Some(("cellAddress" :> "cell_address") @@
                   ("sheetName" :> "sheet_name")))) @@
    ("get_data_validation" :> Route("get_data_validation", None)) @@
    ("list_pivot_tables" :> Route("list_pivot_tables", Some("sheetName" :> "sheet_name"))) @@
    ("refresh_pivot_table" :> Route("refresh_pivot_table",
                                    Some(("pivotTableName" :> "pivot_table_name") @@
                                         ("sheetName" :> "sheet_name")))) @@
    ("auto_fit_columns" :> Route("auto_fit_columns", None)) @@
    ("auto_fit_rows" :> Route("auto_fit_rows", None)) @@
    ("set_range_formulas" :> Route("set_range_formulas", None)) @@
    ("get_range_formulas" :> Route("get_range_formulas", None)) @@
    ("sort_range" :> Route("sort_range", None)) @@
    ("find_values" :> Route("find_values", Some("matchCase" :> "match_case"))) @@
    ("insert_range" :> Route("insert_range", None)) @@
    ("delete_range" :> Route("delete_range", None)) @@
    ("replace_values" :> Route("replace_values", None)) @@
    ("remove_duplicates" :> Route("remove_duplicates", None)) @@
    ("toggle_row_column_visibility" :> Route("toggle_row_column_visibility", None)) @@
    ("set_cell_borders" :> Route("set_cell_borders",
                                 Some(("borderStyle" :> "border_style") @@
                                      ("borderColor" :> "border_color")))) @@
    ("list_sheets" :> Route("list_sheets", None)) @@
    ("list_tables" :> Route("list_tables", Some("sheetName" :> "sheet_name"))) @@
    ("list_charts" :> Route("list_charts", Some("sheetName" :> "sheet_name"))) @@
    ("recalculate_workbook" :> Route("recalculate_workbook",
                                     Some("recalcType" :> "recalc_type"))) @@
    ("get_workbook_info" :> Route("get_workbook_info", None)) @@
    ("get_selected_range" :> Route("get_selected_range", None)) @@
    ("list_named_ranges" :> Route("list_named_ranges", None)) @@
    ("list_comments" :> Route("list_comments", Some("sheetName" :> "sheet_name"))) @@
    ("list_conditional_formats" :> Route("list_conditional_formats", None))

\* the camelCase -> snake_case loop, from the i-th character of k on
RECURSIVE snake_case(_, _)
snake_case(k, i) ==
    IF i > Len(k) THEN ""
    ELSE (IF isupper(Char(k, i)) /\ i > 1 THEN "_" ELSE "") \o lower_char(Char(k, i))
         \o snake_case(k, i + 1)

\* `not remap`: None and the empty dict are falsy
NoRemap(remap) == IF remap.none THEN TRUE ELSE DOMAIN remap.v = {}

\* the key under which _remap_params stores the value of k
RemapKey(k, remap) == IF NoRemap(remap) THEN snake_case(k, 1) ELSE DictGet(remap.v, k, k)

RECURSIVE RemapLoop(_, _, _)
RemapLoop(ps, remap, acc) ==
    IF ps = <<>> THEN acc
    ELSE RemapLoop(Tail(ps), remap,
                   IF Head(ps).v.none THEN acc
                   ELSE DictSet(acc, RemapKey(Head(ps).k, remap), Head(ps).v))

_remap_params(ps, remap) == RemapLoop(ps, remap, EmptyDict)

\* def <method>(self, <params>): the keyword names, those without a default, and **kwargs
Def(names, required, varkw) == [params |-> names, required |-> required, varkw |-> varkw]

Signature ==
    ("create_sheet" :> Def({"name"}, {"name"}, FALSE)) @@
    ("rename_sheet" :> Def({"current_name", "new_name"}, {"current_name", "new_name"}, FALSE)) @@
    ("delete_sheet" :> Def({"name"}, {"name"}, FALSE)) @@
    ("activate_sheet" :> Def({"name"}, {"name"}, FALSE)) @@
    ("copy_sheet" :> Def({"name", "new_name"}, {"name"}, FALSE)) @@
    ("move_sheet" :> Def({"name", "position"}, {"name", "position"}, FALSE)) @@
    ("get_range_values" :> Def({"address", "sheet_name"}, {"address"}, FALSE)) @@
    ("set_range_values" :> Def({"address", "values", "sheet_name"}, {"address", "values"}, FALSE)) @@
    ("get_used_range" :> Def({"sheet_name", "max_rows"}, {}, FALSE)) @@
    ("set_number_format" :> Def({"address", "format_code", "sheet_name"},
                                {"address", "format_code"}, FALSE)) @@
    ("clear_range" :> Def({"address", "sheet_name"}, {"address"}, FALSE)) @@
    ("format_range" :> Def({"address", "sheet_name"}, {"address"}, TRUE)) @@
    ("copy_range" :> Def({"source_address", "destination_address", "source_sheet_name",
                          "destination_sheet_name"},
                         {"source_address", "destination_address"}, FALSE)) @@
    ("merge_cells" :> Def({"address", "across", "sheet_name"}, {"address"}, FALSE)) @@
    ("unmerge_cells" :> Def({"address", "sheet_name"}, {"address"}, FALSE)) @@
    ("add_conditional_format" :> Def({"rule_type", "address", "sheet_name"},
                                     {"rule_type", "address"}, TRUE)) @@
    ("set_data_validation" :> Def({"validation_type", "address", "sheet_name"},
                                  {"validation_type", "address"}, TRUE)) @@
    ("get_data_validation" :> Def({"address", "sheet_name"}, {"address"}, FALSE)) @@
    ("create_table" :> Def({"address", "name", "has_headers", "sheet_name"},
                            {"address"}, FALSE)) @@
    ("add_table_rows" :> Def({"table_name", "values"}, {"table_name", "values"}, FALSE)) @@
    ("get_table_data" :> Def({"table_name"}, {"table_name"}, FALSE)) @@
    ("delete_table" :> Def({"table_name"}, {"table_name"}, FALSE)) @@
    ("sort_table" :> Def({"table_name", "column", "ascending"},
                          {"table_name", "column"}, FALSE)) @@
    ("filter_table" :> Def({"table_name", "column", "values"},
                            {"table_name", "column", "values"}, FALSE)) @@
    ("clear_table_filters" :> Def({"table_name"}, {"table_name"}, FALSE)) @@
    ("add_table_column" :> Def({"table_name", "column_name", "column_data"},
                                {"table_name"}, FALSE)) @@
    ("delete_table_column" :> Def({"table_name", "column_name"},
                                   {"table_name", "column_name"}, FALSE)) @@
    ("convert_table_to_range" :> Def({"table_name"}, {"table_name"}, FALSE)) @@
    ("create_chart" :> Def({"data_range", "chart_type", "title", "sheet_name"},
                            {"data_range", "chart_type"}, FALSE)) @@
    ("delete_chart" :> Def({"chart_name", "sheet_name"}, {"chart_name"}, FALSE)) @@
    ("set_chart_title" :> Def({"chart_name", "title", "sheet_name"},
                               {"chart_name", "title"}, FALSE)) @@
    ("set_chart_type" :> Def({"chart_name", "chart_type", "sheet_name"},
                              {"chart_name", "chart_type"}, FALSE)) @@
    ("set_chart_data_source" :> Def({"chart_name", "data_range", "sheet_name"},
                                     {"chart_name", "data_range"}, FALSE)) @@
    ("define_named_range" :> Def({"name", "address", "sheet_name"},
                                  {"name", "address"}, FALSE)) @@
    ("add_comment" :> Def({"cell_address", "text", "sheet_name"},
                           {"cell_address", "text"}, FALSE)) @@
    ("edit_comment" :> Def({"cell_address", "new_text", "sheet_name"},
                            {"cell_address", "new_text"}, FALSE)) @@
    ("delete_comment" :> Def({"cell_address", "sheet_name"}, {"cell_address"}, FALSE)) @@
    ("list_pivot_tables" :> Def({"sheet_name"}, {}, FALSE)) @@
    ("refresh_pivot_table" :> Def({"pivot_table_name", "sheet_name"}, {"pivot_table_name"}, FALSE)) @@
    ("auto_fit_columns" :> Def({"address", "sheet_name"}, {"address"}, FALSE)) @@
    ("auto_fit_rows" :> Def({"address", "sheet_name"}, {"address"}, FALSE)) @@
    ("set_range_formulas" :> Def({"address", "formulas", "sheet_name"},
                                 {"address", "formulas"}, FALSE)) @@
    ("get_range_formulas" :> Def({"address", "sheet_name"}, {"address"}, FALSE)) @@
    ("sort_range" :> Def({"address", "column", "ascending", "has_headers", "sheet_name"},
                         {"address"}, FALSE)) @@
    ("find_values" :> Def({"searchValue", "address", "sheet_name", "match_case"},
                          {"searchValue"}, FALSE)) @@
    ("insert_range" :> Def({"address", "shift", "sheet_name"}, {"address", "shift"}, FALSE)) @@
    ("delete_range" :> Def({"address", "shift", "sheet_name"}, {"address", "shift"}, FALSE)) @@
    ("replace_values" :> Def({"find", "replace", "address", "sheet_name"},
                             {"find", "replace"}, FALSE)) @@
    ("remove_duplicates" :> Def({"address", "columns", "sheet_name"},
                                {"address", "columns"}, FALSE)) @@
    ("toggle_row_column_visibility" :> Def({"address", "hidden", "target", "sheet_name"},
                                           {"address", "hidden", "target"}, FALSE)) @@
    ("set_cell_borders" :> Def({"address", "border_style", "border_color", "side", "sheet_name"},
                               {"address", "border_style"}, FALSE)) @@
    ("list_sheets" :> Def({}, {}, FALSE)) @@
    ("list_tables" :> Def({"sheet_name"}, {}, FALSE)) @@
    ("list_charts" :> Def({"sheet_name"}, {}, FALSE)) @@
    ("recalculate_workbook" :> Def({"recalc_type"}, {}, FALSE)) @@
    ("get_workbook_info" :> Def({}, {}, FALSE)) @@
    ("get_selected_range" :> Def({}, {}, FALSE)) @@
    ("list_named_ranges" :> Def({}, {}, FALSE)) @@
    ("list_comments" :> Def({"sheet_name"}, {}, FALSE)) @@
    ("list_conditional_formats" :> Def({"address", "sheet_name"}, {"address"}, FALSE))

\* the value bound to a parameter whose default is None
Arg(kw, k) == IF k \in DOMAIN kw THEN kw[k] ELSE None

\* the keywords collected by **params
VarKw(method_name, kw) == [k \in DOMAIN kw \ Signature[method_name].params |-> kw[k].v]

\* Python's binding of keyword arguments: an unexpected or a missing one is a TypeError
BindFails(method_name, kw) ==
    \/ ~Signature[method_name].varkw /\ ~(DOMAIN kw \subseteq Signature[method_name].params)
    \/ ~(Signature[method_name].required \subseteq DOMAIN kw)

Invoke(sim, method_name, kw) ==
    CASE method_name = "create_sheet" -> create_sheet(sim, kw["name"].v)
      [] method_name = "rename_sheet" ->
             rename_sheet(sim, kw["current_name"].v, kw["new_name"].v)
      [] method_name = "delete_sheet" -> delete_sheet(sim, kw["name"].v)
      [] method_name = "activate_sheet" -> activate_sheet(sim, kw["name"].v)
      [] method_name = "copy_sheet" -> copy_sheet(sim, kw["name"].v, Arg(kw, "new_name"))
      [] method_name = "move_sheet" -> move_sheet(sim, kw["name"].v, kw["position"].v)
      [] method_name = "get_range_values" ->
             get_range_values(sim, kw["address"].v, Arg(kw, "sheet_name"))
      [] method_name = "set_range_values" ->
             set_range_values(sim, kw["address"].v, kw["values"].v, Arg(kw, "sheet_name"))
      [] method_name = "get_used_range" ->
             get_used_range(sim, Arg(kw, "sheet_name"), Arg(kw, "max_rows"))
      [] method_name = "set_number_format" ->
             set_number_format(sim, kw["address"].v, kw["format_code"].v, Arg(kw, "sheet_name"))
      [] method_name = "clear_range" ->
             clear_range(sim, kw["address"].v, Arg(kw, "sheet_name"))
      [] method_name = "format_range" ->
             format_range(sim, kw["address"].v, Arg(kw, "sheet_name"), VarKw(method_name, kw))
      [] method_name = "copy_range" ->
             copy_range(sim, kw["source_address"].v, kw["destination_address"].v,
                        Arg(kw, "source_sheet_name"), Arg(kw, "destination_sheet_name"))
      [] method_name = "merge_cells" ->
             merge_cells(sim, kw["address"].v, Arg(kw, "across"), Arg(kw, "sheet_name"))
      [] method_name = "unmerge_cells" ->
             unmerge_cells(sim, kw["address"].v, Arg(kw, "sheet_name"))
      [] method_name = "add_conditional_format" ->
             add_conditional_format(sim, kw["rule_type"].v, kw["address"].v,
                                    Arg(kw, "sheet_name"), VarKw(method_name, kw))
      [] method_name = "set_data_validation" ->
             set_data_validation(sim, kw["validation_type"].v, kw["address"].v,
                                 Arg(kw, "sheet_name"), VarKw(method_name, kw))
      [] method_name = "get_data_validation" ->
             get_data_validation(sim, kw["address"].v, Arg(kw, "sheet_name"))
      [] method_name = "create_table" ->
             create_table(sim, kw["address"].v, Arg(kw, "name"),
                               Arg(kw, "has_headers"), Arg(kw, "sheet_name"))
      [] method_name = "add_table_rows" ->
             add_table_rows(sim, kw["table_name"].v, kw["values"].v)
      [] method_name = "get_table_data" -> get_table_data(sim, kw["table_name"].v)
      [] method_name = "delete_table" -> delete_table(sim, kw["table_name"].v)
      [] method_name = "sort_table" ->
             sort_table(sim, kw["table_name"].v, kw["column"].v, Arg(kw, "ascending"))
      [] method_name = "filter_table" ->
             filter_table(sim, kw["table_name"].v, kw["column"].v, kw["values"].v)
      [] method_name = "clear_table_filters" -> clear_table_filters(sim, kw["table_name"].v)
      [] method_name = "add_table_column" ->
             add_table_column(sim, kw["table_name"].v, Arg(kw,
                                   "column_name"), Arg(kw, "column_data"))
      [] method_name = "delete_table_column" ->
             delete_table_column(sim, kw["table_name"].v, kw["column_name"].v)
      [] method_name = "convert_table_to_range" ->
             convert_table_to_range(sim, kw["table_name"].v)
      [] method_name = "create_chart" ->
             create_chart(sim, kw["data_range"].v, kw["chart_type"].v, Arg(kw,
                               "title"), Arg(kw, "sheet_name"))
      [] method_name = "delete_chart" ->
             delete_chart(sim, kw["chart_name"].v, Arg(kw, "sheet_name"))
      [] method_name = "set_chart_title" ->
             set_chart_title(sim, kw["chart_name"].v, kw["title"].v, Arg(kw, "sheet_name"))
      [] method_name = "set_chart_type" ->
             set_chart_type(sim, kw["chart_name"].v, kw["chart_type"].v, Arg(kw, "sheet_name"))
      [] method_name = "set_chart_data_source" ->
             set_chart_data_source(sim, kw["chart_name"].v, kw["data_range"].v,
                                        Arg(kw, "sheet_name"))
      [] method_name = "define_named_range" ->
             define_named_range(sim, kw["name"].v, kw["address"].v, Arg(kw, "sheet_name"))
      [] method_name = "add_comment" ->
             add_comment(sim, kw["cell_address"].v, kw["text"].v, Arg(kw, "sheet_name"))
      [] method_name = "edit_comment" ->
             edit_comment(sim, kw["cell_address"].v, kw["new_text"].v, Arg(kw, "sheet_name"))
      [] method_name = "delete_comment" ->
             delete_comment(sim, kw["cell_address"].v, Arg(kw, "sheet_name"))
      [] method_name = "list_pivot_tables" -> list_pivot_tables(sim, Arg(kw, "sheet_name"))
      [] method_name = "refresh_pivot_table" ->
             refresh_pivot_table(sim, kw["pivot_table_name"].v, Arg(kw, "sheet_name"))
      [] method_name = "auto_fit_columns" ->
             auto_fit_columns(sim, kw["address"].v, Arg(kw, "sheet_name"))
      [] method_name = "auto_fit_rows" ->
             auto_fit_rows(sim, kw["address"].v, Arg(kw, "sheet_name"))
      [] method_name = "set_range_formulas" ->
             set_range_formulas(sim, kw["address"].v, kw["formulas"].v, Arg(kw, "sheet_name"))
      [] method_name = "get_range_formulas" ->
             get_range_formulas(sim, kw["address"].v, Arg(kw, "sheet_name"))
      [] method_name = "sort_range" ->
             sort_range(sim, kw["address"].v, Arg(kw, "column"), Arg(kw, "ascending"),
                        Arg(kw, "has_headers"), Arg(kw, "sheet_name"))
      [] method_name = "find_values" ->
             find_values(sim, kw["searchValue"].v, Arg(kw, "address"), Arg(kw, "sheet_name"),
                         Arg(kw, "match_case"))
      [] method_name = "insert_range" ->
             insert_range(sim, kw["address"].v, kw["shift"].v, Arg(kw, "sheet_name"))
      [] method_name = "delete_range" ->
             delete_range(sim, kw["address"].v, kw["shift"].v, Arg(kw, "sheet_name"))
      [] method_name = "replace_values" ->
             replace_values(sim, kw["find"].v, kw["replace"].v, Arg(kw, "address"),
                            Arg(kw, "sheet_name"))
      [] method_name = "remove_duplicates" ->
             remove_duplicates(sim, kw["address"].v, kw["columns"].v, Arg(kw, "sheet_name"))
      [] method_name = "toggle_row_column_visibility" ->
             toggle_row_column_visibility(sim, kw["address"].v, kw["hidden"].v,
                                          kw["target"].v, Arg(kw, "sheet_name"))
      [] method_name = "set_cell_borders" ->
             set_cell_borders(sim, kw["address"].v, kw["border_style"].v,
                              Arg(kw, "border_color"), Arg(kw, "side"), Arg(kw, "sheet_name"))
      [] method_name = "list_sheets" -> list_sheets(sim)
      [] method_name = "list_tables" -> list_tables(sim, Arg(kw, "sheet_name"))
      [] method_name = "list_charts" -> list_charts(sim, Arg(kw, "sheet_name"))
      [] method_name = "recalculate_workbook" ->
             recalculate_workbook(sim, Arg(kw, "recalc_type"))
      [] method_name = "get_workbook_info" -> get_workbook_info(sim)
      [] method_name = "get_selected_range" -> get_selected_range(sim)
      [] method_name = "list_named_ranges" -> list_named_ranges(sim)
      [] method_name = "list_comments" -> list_comments(sim, Arg(kw, "sheet_name"))
      [] method_name = "list_conditional_formats" ->
             list_conditional_formats(sim, kw["address"].v, Arg(kw, "sheet_name"))

\* method(<keywords>): a repeated, an unexpected or a missing keyword is a TypeError
Call(sim, method_name, args) ==
    IF args.dup \/ BindFails(method_name, args.kw)
    THEN Raise(sim, "TypeError")
    ELSE Invoke(sim, method_name, args.kw)

\* a decomposed call that pops sheet_name and does not forward it
CallDecomposed_drops_sheet_name(type_key, type_value, py_params) ==
    [kw |-> (type_key :> Some(type_value)) @@
            ("address" :> DictGet(py_params, "address", Some(""))) @@
            DictDel(DictDel(py_params, "address"), "sheet_name"),
     dup |-> type_key \in DOMAIN py_params]

\* method(<type_key>=type_value, address=address, sheet_name=sheet_name, **py_params)
\* after address and sheet_name were popped from py_params
CallDecomposed(type_key, type_value, py_params) ==
    [kw |-> (type_key :> Some(type_value)) @@
            ("address" :> DictGet(py_params, "address", Some(""))) @@
            ("sheet_name" :> DictGet(py_params, "sheet_name", None)) @@
            DictDel(DictDel(py_params, "address"), "sheet_name"),
     dup |-> type_key \in DOMAIN py_params]

\* method(**py_params)
CallPlain(py_params) == [kw |-> py_params, dup |-> FALSE]

\* the call expression _dispatch chooses for a tool
CallArgs(tool_name, method_name, py_params) ==
    IF startswith(tool_name, "add_") /\ method_name = "add_conditional_format"
    THEN CallDecomposed("rule_type", str_replace(tool_name, "add_", ""), py_params)
    ELSE IF startswith(tool_name, "set_") /\ method_name = "set_data_validation"
    THEN CallDecomposed("validation_type",
                        str_replace(str_replace(tool_name, "set_", ""), "_validation", ""),
                        py_params)
    ELSE CallPlain(py_params)

----------------------------------------------------------------------------
(* Dispatcher *)

\* json.dumps(value, default=str): the text is determined by the value; every payload the
\* simulator builds is made of str, int, bool, None, list and dict, so default is never used
json_dumps(value) == [json |-> value]

Returned(text) == [returned |-> text]

\* what _dispatch leaves behind: the simulator, its local `result`, and its outcome
Dispatched(sim, res, resp) == [sim |-> sim, result |-> res, response |-> resp]

\* a tail of _dispatch that wraps the payload in a success/value object
Respond_enveloped(out) ==
    IF Raised(out) THEN Dispatched(out.sim, None, [raised |-> out.exc])
    ELSE IF ~IsToolResult(out.ret)
    THEN Dispatched(out.sim, out.ret, [raised |-> "AttributeError"])
    ELSE IF out.ret.success
    THEN Dispatched(out.sim, out.ret,
                    Returned(json_dumps(Obj([success |-> TRUE, value |-> out.ret.value]))))
    ELSE Dispatched(out.sim, out.ret, Returned(json_dumps(Obj([error |-> out.ret.error.v]))))

\* a tail of _dispatch that reports every failure with the same text
Respond_generic_error(out) ==
    IF Raised(out) THEN Dispatched(out.sim, None, [raised |-> out.exc])
    ELSE IF ~IsToolResult(out.ret)
    THEN Dispatched(out.sim, out.ret, [raised |-> "AttributeError"])
    ELSE IF out.ret.success
    THEN Dispatched(out.sim, out.ret, Returned(json_dumps(out.ret.value)))
    ELSE Dispatched(out.sim, out.ret, Returned(json_dumps(Obj([error |-> "failed"]))))

\* the tail of _dispatch: result.success on whatever the method returned
Respond(out) ==
    IF Raised(out) THEN Dispatched(out.sim, None, [raised |-> out.exc])
    ELSE IF ~IsToolResult(out.ret)
    THEN Dispatched(out.sim, out.ret, [raised |-> "AttributeError"])
    ELSE IF out.ret.success
    THEN Dispatched(out.sim, out.ret, Returned(json_dumps(out.ret.value)))
    ELSE Dispatched(out.sim, out.ret, Returned(json_dumps(Obj([error |-> out.ret.error.v]))))

\* _dispatch once the route is found
_dispatch_routed(sim, tool_name, ps) ==
    LET routed(method_name, remap) ==
            IF method_name \notin DOMAIN Signature
            THEN Dispatched(sim, None,
                            Returned(json_dumps(Obj([error |-> "Simulator has no method: "
                                                               \o method_name]))))
            ELSE Respond(Call(sim, method_name,
                              CallArgs(tool_name, method_name, _remap_params(ps, remap))))
    IN routed(_TOOL_ROUTES[tool_name].method, _TOOL_ROUTES[tool_name].remap)

\* a _dispatch that does not name the unknown tool
_dispatch_anonymous(sim, tool_name, ps) ==
    IF tool_name \notin DOMAIN _TOOL_ROUTES
    THEN Dispatched(sim, None, Returned(json_dumps(Obj([error |-> "Unknown tool"]))))
    ELSE _dispatch_routed(sim, tool_name, ps)

_dispatch(sim, tool_name, ps) ==
    IF tool_name \notin DOMAIN _TOOL_ROUTES
    THEN Dispatched(sim, None,
                    Returned(json_dumps(Obj([error |-> "Unknown tool: " \o tool_name]))))
    ELSE _dispatch_routed(sim, tool_name, ps)

\* the state after a _dispatch call
\* the state after the handler registered as name has returned _dispatch(tool_name, ps)
CommitAs(d, name, tool_name, ps) ==
    /\ sheets' = d.sim.sheets
    /\ active_sheet' = d.sim.active_sheet
    /\ tables' = d.sim.tables
    /\ charts' = d.sim.charts
    /\ comments' = d.sim.comments
    /\ conditional_formats' = d.sim.conditional_formats
    /\ data_validations' = d.sim.data_validations
    /\ named_ranges' = d.sim.named_ranges
    /\ chart_counter' = d.sim.chart_counter
    /\ tool' = tool_name
    /\ params' = ps
    /\ remap_arg' = IF tool_name \in DOMAIN _TOOL_ROUTES THEN _TOOL_ROUTES[tool_name].remap ELSE None
    /\ result' = d.result
    /\ response' = d.response
    /\ called' = name
    /\ UNCHANGED <<manifest, mcp_tools>>

Commit(d, tool_name, ps) == CommitAs(d, tool_name, tool_name, ps)

\* handler(**kwargs) of a registered tool: one _dispatch call on the module's simulator
\* register_tools wires a handler for a manifest tool only if the tool is routed
Registered(tool_name) == tool_name \in DOMAIN _TOOL_ROUTES

Dispatch(tool_name, ps) == Commit(_dispatch(Sim, tool_name, ps), tool_name, ps)

----------------------------------------------------------------------------
(* The workbook under sheet-level tool calls *)

MaxSheets == 2

MaxPosition == 2

MaxNameLen == 10

\* sheet names a caller passes: the initial sheet's, a new one, and one never created
SheetNameArgs == {"Sheet1", "X", "Ghost"}

\* _sim = ExcelSimulator(): the module's simulator, freshly constructed
InitSim ==
    /\ sheets = NewSim.sheets
    /\ active_sheet = NewSim.active_sheet
    /\ tables = NewSim.tables
    /\ charts = NewSim.charts
    /\ comments = NewSim.comments
    /\ conditional_formats = NewSim.conditional_formats
    /\ data_validations = NewSim.data_validations
    /\ named_ranges = NewSim.named_ranges
    /\ chart_counter = NewSim.chart_counter

\* the server before register_tools has run
NoManifest ==
    /\ manifest = <<>>
    /\ mcp_tools = <<>>
    /\ called = ""

Init ==
    /\ InitSim
    /\ NoManifest
    /\ tool = ""
    /\ params = <<>>
    /\ remap_arg = None
    /\ result = None
    /\ response = None

tool_create_sheet ==
    \E n \in SheetNameArgs \ {"Ghost"} :
        /\ Registered("create_sheet")
        /\ Len(sheets) < MaxSheets \/ HasSheet(Sim, n)
        /\ Dispatch("create_sheet", <<KW("name", Some(n))>>)

tool_rename_sheet ==
    \E c \in SheetNameArgs, n \in SheetNameArgs \ {"Ghost"} :
        /\ Registered("rename_sheet")
        /\ Dispatch("rename_sheet", <<KW("currentName", Some(c)), KW("newName", Some(n))>>)

tool_delete_sheet ==
    \E n \in SheetNameArgs \cup SheetNames(Sim) :
        /\ Registered("delete_sheet")
        /\ Dispatch("delete_sheet", <<KW("name", Some(n))>>)

tool_activate_sheet ==
    \E n \in SheetNameArgs \cup SheetNames(Sim) :
        /\ Registered("activate_sheet")
        /\ Dispatch("activate_sheet", <<KW("name", Some(n))>>)

tool_copy_sheet ==
    \E n \in SheetNameArgs \cup SheetNames(Sim),
       nn \in {None} \cup {Some(x) : x \in SheetNameArgs \ {"Ghost"}} \cup {Some("")} :
        /\ Registered("copy_sheet")
        /\ HasSheet(Sim, n) =>
               /\ Len(sheets) < MaxSheets \/ HasSheet(Sim, Or(nn, Some(n \o " (2)")).v)
               /\ GetSheet(Sim, n).position < MaxPosition
               /\ Len(Or(nn, Some(n \o " (2)")).v) <= MaxNameLen
        /\ Dispatch("copy_sheet", <<KW("name", Some(n)), KW("newName", nn)>>)

tool_move_sheet ==
    \E n \in SheetNameArgs \cup SheetNames(Sim), pos \in 0..1 :
        /\ Registered("move_sheet")
        /\ Dispatch("move_sheet", <<KW("name", Some(n)), KW("position", Some(pos))>>)

Next ==
    \/ tool_create_sheet
    \/ tool_rename_sheet
    \/ tool_delete_sheet
    \/ tool_activate_sheet
    \/ tool_copy_sheet
    \/ tool_move_sheet

Spec == Init /\ [][Next]_vars

----------------------------------------------------------------------------
(* Claims *)

\* the last call reached a simulator method that returned a success envelope
Succeeded == IsToolResult(result) /\ result.success

\* the last call reached a simulator method that returned a failure envelope
Failed == IsToolResult(result) /\ ~result.success

\* the value of argument k of the last call (k is one of its keys)
ParamOf(ps, k) == ps[CHOOSE i \in DOMAIN ps : ps[i].k = k].v

\* C1: after any sequence of sheet tool calls, successful or failed, the workbook has at
\* least one sheet and active_sheet names one of its sheets; deleting the active sheet
\* makes a remaining sheet active, renaming it moves active_sheet to the new name
C1_SheetInvariant ==
    /\ [](Len(sheets) >= 1 /\ active_sheet \in SheetNames(Sim))
    /\ [][/\ (tool' = "delete_sheet" /\ Succeeded' /\ active_sheet = ParamOf(params', "name").v)
              => (active_sheet' # active_sheet /\ \E i \in DOMAIN sheets : sheets[i].name = active_sheet')
          /\ (tool' = "rename_sheet" /\ Succeeded' /\ active_sheet = ParamOf(params', "currentName").v)
              => active_sheet' = ParamOf(params', "newName").v]_vars

\* a sheet created later is the only sheet left and is active: the initial sheet was deleted
C1_Witness ==
    /\ tool = "delete_sheet" /\ Succeeded
    /\ Len(sheets) = 1 /\ active_sheet = sheets[1].name /\ active_sheet = "X"

----------------------------------------------------------------------------
(* The dispatcher under range, pivot-table and unrouted tool calls *)

\* tool names a manifest may carry that _TOOL_ROUTES does not list
UnroutedTools == {"bogus_tool", "add_sparkline"}

\* addresses a caller passes: a cell, a block, a sheet-qualified cell, and a malformed one
AddressArgs == {"A1", "A1:B2", "Sheet1!B1", "?"}

\* sheetName as a caller passes it: omitted (None), an existing sheet, a sheet never created
SheetNameOpts == {None, Some("Sheet1"), Some("X"), Some("Ghost")}

\* an optional argument: omitted (None) or given
Opt(given, x) == IF given THEN Some(x) ELSE None

\* 2D value grids a caller writes
ValueArgs == {<<<<1>>>>, <<<<1, 2>>, <<3, 4>>>>}

\* a direct _dispatch call for a tool that has no route (no handler is registered for it)
tool_unrouted ==
    \E tn \in UnroutedTools, a \in {"A1"}, given \in BOOLEAN :
        /\ ~Registered(tn)
        /\ Dispatch(tn, <<KW("address", Opt(given, a))>>)

tool_get_range_values ==
    \E a \in AddressArgs, sn \in SheetNameOpts :
        /\ Registered("get_range_values")
        /\ Dispatch("get_range_values", <<KW("address", Some(a)), KW("sheetName", sn)>>)

tool_set_range_values ==
    \E a \in AddressArgs \ {"Sheet1!B1"}, v \in ValueArgs, sn \in SheetNameOpts :
        /\ Registered("set_range_values")
        /\ Dispatch("set_range_values",
                    <<KW("address", Some(a)), KW("values", Some(v)), KW("sheetName", sn)>>)

tool_get_used_range ==
    \E sn \in SheetNameOpts, mr \in {1}, given \in BOOLEAN :
        /\ Registered("get_used_range")
        /\ Dispatch("get_used_range", <<KW("sheetName", sn), KW("maxRows", Opt(given, mr))>>)

tool_set_number_format ==
    \E a \in {"A1", "?"}, fc \in {"0.00"}, sn \in SheetNameOpts :
        /\ Registered("set_number_format")
        /\ Dispatch("set_number_format",
                    <<KW("address", Some(a)), KW("formatCode", Some(fc)), KW("sheetName", sn)>>)

tool_list_pivot_tables ==
    \E sn \in SheetNameOpts :
        /\ Registered("list_pivot_tables")
        /\ Dispatch("list_pivot_tables", <<KW("sheetName", sn)>>)

tool_refresh_pivot_table ==
    \E p \in {"P"}, sn \in SheetNameOpts :
        /\ Registered("refresh_pivot_table")
        /\ Dispatch("refresh_pivot_table", <<KW("pivotTableName", Some(p)), KW("sheetName", sn)>>)

NextDispatch ==
    \/ tool_unrouted
    \/ tool_get_range_values
    \/ tool_set_range_values
    \/ tool_get_used_range
    \/ tool_set_number_format
    \/ tool_list_pivot_tables
    \/ tool_refresh_pivot_table
    \/ tool_create_sheet
    \/ tool_activate_sheet

SpecDispatch == Init /\ [][NextDispatch]_vars

\* the address argument of the last call, if any, names well-formed cells
AddressWellFormed ==
    \A i \in DOMAIN params :
        (params[i].k = "address" /\ ~params[i].v.none) =>
            /\ CellMatches(_parse_range(params[i].v.v).start)
            /\ CellMatches(_parse_range(params[i].v.v).end)

\* the last call carried sheetName = S for a sheet S of the workbook
SheetNameGiven ==
    \E i \in DOMAIN params :
        params[i].k = "sheetName" /\ ~params[i].v.none /\ HasSheet(Sim, params[i].v.v)

\* the text is the serialization of an object with the single member "error", a string
IsErrorObject(text) ==
    /\ "object" \in DOMAIN text.json
    /\ DOMAIN text.json.object = {"error"}
    /\ text.json.object.error \in STRING

\* C2 (as claimed): every _dispatch call returns a string; no exception crosses the
\* dispatch boundary
C2_DispatchNeverRaises == tool # "" => "returned" \in DOMAIN response

\* C5 (as claimed): a routed operation that accepts a sheet-name override, dispatched with
\* sheetName = S for an existing sheet S and well-formed addresses, is applied and returns
\* a response string
C5_SheetNameReachesOperation ==
    (/\ Registered(tool)
     /\ "sheet_name" \in Signature[_TOOL_ROUTES[tool].method].params
     /\ SheetNameGiven
     /\ AddressWellFormed)
        => ("returned" \in DOMAIN response /\ Succeeded)

\* C7: dispatching a tool name that has no route returns exactly the serialized object
\* {"error": "Unknown tool: <name>"} and leaves the workbook unchanged
C7_UnknownTool ==
    [][~Registered(tool') =>
          /\ response' = [returned |-> [json |-> [object |-> [error |-> "Unknown tool: " \o tool']]]]
          /\ Sim' = Sim]_vars

\* an unrouted tool was dispatched on a workbook that already holds written cells
C7_Witness ==
    /\ tool = "bogus_tool"
    /\ "returned" \in DOMAIN response
    /\ \E i \in DOMAIN sheets : sheets[i].cells # <<>>

\* C8 (as claimed): every returned string is {"success": true, "value": <payload>} or
\* {"error": <string>}
C8_EnvelopeShape ==
    "returned" \in DOMAIN response =>
        \/ IsErrorObject(response.returned)
        \/ /\ "object" \in DOMAIN response.returned.json
           /\ DOMAIN response.returned.json.object = {"success", "value"}
           /\ response.returned.json.object.success = TRUE

\* C8 (amended): every returned string is the serialization of the bare value payload when
\* the operation succeeded, and of {"error": <string>} otherwise
C8_ResponseShape ==
    "returned" \in DOMAIN response =>
        IF Succeeded THEN response.returned = [json |-> result.value]
        ELSE IsErrorObject(response.returned)

\* a successful call whose payload is an object without a "success" member
C8_Witness ==
    /\ Succeeded
    /\ "returned" \in DOMAIN response
    /\ "object" \in DOMAIN response.returned.json
    /\ "success" \notin DOMAIN response.returned.json.object

\* C9: when the operation returned an envelope, the response is the serialization of
\* exactly its value payload on success and of {error: <its message>} on failure
C9_ResponseFromEnvelope ==
    IsToolResult(result) =>
        /\ "returned" \in DOMAIN response
        /\ result.success => response.returned.json = result.value
        /\ ~result.success =>
               response.returned.json = [object |-> [error |-> result.error.v]]

\* a routed call failed in the simulator and its message reached the caller
C9_Witness ==
    /\ Registered(tool)
    /\ Failed
    /\ "returned" \in DOMAIN response
    /\ response.returned.json.object.error = "Sheet 'Ghost' not found"

\* this step reads back, through get_range_values, the address and sheet that the previous
\* call wrote through a successful set_range_values
ReadsBackWrite ==
    /\ tool = "set_range_values" /\ Succeeded
    /\ tool' = "get_range_values"
    /\ ParamOf(params', "address") = ParamOf(params, "address")
    /\ ParamOf(params', "sheetName") = ParamOf(params, "sheetName")

\* the grid is rectangular and non-empty and the address spans exactly its rows and columns
SpansGrid(address, values) ==
    /\ CellMatches(_parse_range(address).start) /\ CellMatches(_parse_range(address).end)
    /\ Len(values) >= 1 /\ Len(values[1]) >= 1
    /\ \A i \in DOMAIN values : Len(values[i]) = Len(values[1])
    /\ _parse_cell(_parse_range(address).end).row
           = _parse_cell(_parse_range(address).start).row + Len(values) - 1
    /\ _col_to_index(_parse_cell(_parse_range(address).end).col)
           = _col_to_index(_parse_cell(_parse_range(address).start).col) + Len(values[1]) - 1

\* C6 (as claimed): after set_range_values(A, V) succeeds, get_range_values(A) on the same
\* sheet returns a grid identical to V, for any address A
C6_RoundTrip ==
    [][ReadsBackWrite =>
           (Succeeded' /\ result'.value = [array |-> ParamOf(params, "values").v])]_vars

\* C6 (amended): the round trip holds when A spans exactly the rows and columns of V
C6_RoundTripExact ==
    [][(ReadsBackWrite /\ SpansGrid(ParamOf(params, "address").v, ParamOf(params, "values").v))
           => (Succeeded' /\ result'.value = [array |-> ParamOf(params, "values").v])]_vars

\* a 2 x 2 grid written at A1 was read back whole through the block address
C6_Witness ==
    /\ tool = "get_range_values" /\ Succeeded
    /\ ParamOf(params, "address").v = "A1:B2"
    /\ ParamOf(params, "sheetName").none
    /\ {"A1", "B1", "A2", "B2"} \subseteq DOMAIN GetSheet(Sim, active_sheet).cells
    /\ result.value = [array |-> <<<<1, 2>>, <<3, 4>>>>]

----------------------------------------------------------------------------
(* _remap_params as a function of its two arguments *)

MaxParams == 2

\* external keys and values of a flat argument mapping; None is an omitted optional
ParamKeys == {"address", "sheetName", "maxRows"}

ParamValues == {None, Some("S")}

\* flat argument mappings of at most MaxParams entries, in call order
ParamArgs ==
    {ps \in UNION {[1..n -> [k : ParamKeys, v : ParamValues]] : n \in 0..MaxParams} :
        \A i, j \in DOMAIN ps : ps[i].k = ps[j].k => i = j}

\* rename tables: none, an empty one, and two shaped like those of _TOOL_ROUTES
RemapArgs ==
    {None, Some(EmptyDict), Some("maxRows" :> "max_rows"),
     Some(("sheetName" :> "sheet_name") @@ ("maxRows" :> "max_rows"))}

InitRemap ==
    /\ InitSim
    /\ NoManifest
    /\ tool = ""
    /\ params \in ParamArgs
    /\ remap_arg \in RemapArgs
    /\ result = None
    /\ response = None

\* result = _remap_params(params, remap)
call_remap_params ==
    /\ result.none
    /\ result' = Some(_remap_params(params, remap_arg))
    /\ UNCHANGED <<sheets, active_sheet, tables, charts, comments, conditional_formats,
                   data_validations, named_ranges, chart_counter,
                   tool, params, remap_arg, response, manifest, mcp_tools, called>>

NextRemap == call_remap_params

SpecRemap == InitRemap /\ [][NextRemap]_vars

\* the key the claim gives to k: the generic transform without a table, the table's entry
\* or k itself with a table
ClaimedKey(k, table) == IF table.none THEN snake_case(k, 1) ELSE DictGet(table.v, k, k)

\* the entries of params whose value is not None
Supplied == {i \in DOMAIN params : ~params[i].v.none}

----------------------------------------------------------------------------
(* The dispatcher under the decomposed conditional-format and data-validation tools *)

MaxRecords == 2

AddFormatTools ==
    {"add_color_scale", "add_data_bar", "add_cell_value_format", "add_top_bottom_format",
     "add_contains_text_format", "add_custom_format"}

SetValidationTools ==
    {"set_list_validation", "set_number_validation", "set_date_validation",
     "set_text_length_validation", "set_custom_validation"}

\* the optional sheetName argument; the simulator does not check it against the workbook
OwningSheetOpts == {None, Some("Sheet1"), Some("X")}

\* (address, owning sheet) already has a data validation
Validated(address, sheet_name) ==
    \E i \in DOMAIN data_validations :
        /\ data_validations[i].address = address
        /\ data_validations[i].sheet_name = Or(sheet_name, Some(active_sheet)).v

tool_add_format ==
    \E tn \in AddFormatTools, a \in {"A1"}, sn \in OwningSheetOpts, c \in {"red"} :
        /\ Registered(tn)
        /\ Len(conditional_formats) + Len(data_validations) < MaxRecords
        /\ Dispatch(tn, <<KW("address", Some(a)), KW("sheetName", sn),
                          KW("minColor", Some(c))>>)

tool_set_validation ==
    \E tn \in SetValidationTools, a \in {"A1"}, sn \in OwningSheetOpts, given \in BOOLEAN :
        /\ Registered(tn)
        /\ \/ Len(conditional_formats) + Len(data_validations) < MaxRecords
           \/ Validated(a, sn)
        /\ Dispatch(tn, <<KW("address", Some(a)), KW("sheetName", sn),
                          KW("errorMessage", Opt(given, "no"))>>)

tool_get_data_validation ==
    \E a \in {"A1"}, sn \in OwningSheetOpts :
        /\ Registered("get_data_validation")
        /\ Dispatch("get_data_validation", <<KW("address", Some(a)), KW("sheetName", sn)>>)

NextDecomp ==
    \/ tool_add_format
    \/ tool_set_validation
    \/ tool_get_data_validation

SpecDecomp == Init /\ [][NextDecomp]_vars

\* the arguments of ps other than address and sheetName, keys and values as they are in ps
FreeFormAsGiven(ps) ==
    LET free == {i \in DOMAIN ps : ps[i].k \notin {"address", "sheetName"}}
    IN [k \in {ps[i].k : i \in free} |->
            LET v == ps[CHOOSE i \in free : ps[i].k = k].v
            IN IF v.none THEN None ELSE v.v]

\* the supplied (non-None) arguments of ps other than address and sheetName, under their
\* snake_case names
FreeFormRemapped(ps) ==
    LET free == {i \in DOMAIN ps : ps[i].k \notin {"address", "sheetName"} /\ ~ps[i].v.none}
    IN [k \in {snake_case(ps[i].k, 1) : i \in free} |->
            ps[CHOOSE i \in free : snake_case(ps[i].k, 1) = k].v.v]

\* <ruleType> of add_<ruleType>
RuleTypeOf(tool_name) == SubSeq(tool_name, 5, Len(tool_name))

\* <type> of set_<type>_validation
ValidationTypeOf(tool_name) == SubSeq(tool_name, 5, Len(tool_name) - 11)

\* the lists a direct call of the generic operation stores, for the last tool name and the
\* given free-form keywords, from workbook state sim
StoredDirectly(sim, tool_name, ps, free_form) ==
    IF tool_name \in AddFormatTools
    THEN add_conditional_format(sim, RuleTypeOf(tool_name), ParamOf(ps, "address").v,
                                ParamOf(ps, "sheetName"), free_form).sim
    ELSE set_data_validation(sim, ValidationTypeOf(tool_name), ParamOf(ps, "address").v,
                             ParamOf(ps, "sheetName"), free_form).sim

\* the step stores what the direct call with these free-form keywords stores
StoresAsDirectCall(free_form) ==
    LET same(direct) ==
            /\ conditional_formats' = direct.conditional_formats
            /\ data_validations' = direct.data_validations
    IN same(StoredDirectly(Sim, tool', params', free_form))

\* C3 (as claimed): dispatching add_<ruleType> or set_<type>_validation with parameters P
\* stores the record that the generic operation stores when it is called with that type,
\* P's address and sheet name as dedicated arguments and every other entry of P, as it is
\* in P, as free-form params
C3_DecompositionSameP ==
    [][tool' \in AddFormatTools \cup SetValidationTools =>
           StoresAsDirectCall(FreeFormAsGiven(params'))]_vars

\* C3 (amended): dispatching add_<ruleType> or set_<type>_validation with parameters P
\* stores the record that the generic operation stores when it is called with that type,
\* P's address and sheet name as dedicated arguments and, as free-form params, the other
\* entries of P whose value is not None under their snake_case names
C3_DecompositionRemapped ==
    [][tool' \in AddFormatTools \cup SetValidationTools =>
           /\ Succeeded'
           /\ StoresAsDirectCall(FreeFormRemapped(params'))]_vars

C3_Witness ==
    /\ tool = "set_text_length_validation" /\ Succeeded
    /\ conditional_formats = <<[rule_type |-> "color_scale", address |-> "A1",
                                sheet_name |-> "X", params |-> ("min_color" :> "red")]>>
    /\ data_validations = <<[validation_type |-> "text_length", address |-> "A1",
                             sheet_name |-> "Sheet1", params |-> ("error_message" :> "no")]>>

\* the data validations of the (address, sheet_name) pair
OfPair(validations, address, sheet_name) ==
    LET hit(v) == v.address = address /\ v.sheet_name = sheet_name
    IN SelectSeq(validations, hit)

\* the data validations of every other pair
OfOtherPairs(validations, address, sheet_name) ==
    LET other(v) == ~(v.address = address /\ v.sheet_name = sheet_name)
    IN SelectSeq(validations, other)

\* C10: the data-validation list never holds two records for one (address, owning sheet)
\* pair; a successful set_<type>_validation leaves exactly one record for its pair, with
\* the new type and parameters, and leaves the records of the other pairs as they were
C10_OneValidationPerPair ==
    /\ [](\A i, j \in DOMAIN data_validations :
              (/\ data_validations[i].address = data_validations[j].address
               /\ data_validations[i].sheet_name = data_validations[j].sheet_name) => i = j)
    /\ [][(tool' \in SetValidationTools /\ Succeeded') =>
              LET replaced(a, sn) ==
                      /\ OfPair(data_validations', a, sn) =
                             <<[validation_type |-> ValidationTypeOf(tool'), address |-> a,
                                sheet_name |-> sn, params |-> FreeFormRemapped(params')]>>
                      /\ OfOtherPairs(data_validations', a, sn) =
                             OfOtherPairs(data_validations, a, sn)
              IN replaced(ParamOf(params', "address").v,
                          IF ParamOf(params', "sheetName").none THEN active_sheet
                          ELSE ParamOf(params', "sheetName").v)]_vars

C10_Witness ==
    /\ tool = "set_list_validation" /\ Succeeded
    /\ ParamOf(params, "sheetName").none
    /\ Len(data_validations) = 2
    /\ data_validations[1].sheet_name = "X"
    /\ data_validations[2] = [validation_type |-> "list", address |-> "A1",
                              sheet_name |-> "Sheet1", params |-> EmptyDict]

\* the sheet the last call resolves: its sheetName argument, or the active sheet
ResolvedSheet == Or(ParamOf(params, "sheetName"), Some(active_sheet)).v

\* C11 (as claimed): add_conditional_format and set_data_validation, when the sheet name
\* they resolve is not a sheet of the workbook, return a failure envelope
C11_MissingSheetFails ==
    (tool \in AddFormatTools \cup SetValidationTools /\ ~HasSheet(Sim, ResolvedSheet))
        => Failed

\* C18 (as claimed): get_data_validation on an (address, sheet) pair that has no
\* validation record returns a failure envelope
C18_LookupMissFails ==
    (/\ tool = "get_data_validation"
     /\ ~Validated(ParamOf(params, "address").v, ParamOf(params, "sheetName")))
        => Failed

\* C12 (as claimed): a range operation given an address whose cell part does not match
\* letters-then-digits returns a failure envelope, and no exception reaches the caller
C12_MalformedAddressFails ==
    (/\ tool \in {"get_range_values", "set_range_values", "set_number_format"}
     /\ ~AddressWellFormed)
        => ("returned" \in DOMAIN response /\ Failed)

\* C13 (as claimed): every simulator operation called with arguments it accepts (keywords
\* that bind, addresses that parse) returns a result envelope
C13_EnvelopeReturned ==
    (/\ Registered(tool)
     /\ response # [raised |-> "TypeError"]
     /\ AddressWellFormed)
        => IsToolResult(result)

\* the name copy_sheet gives the copy: new_name, or "<name> (2)" when it is None or empty
CopiedName(ps) ==
    IF ParamOf(ps, "newName").none \/ ParamOf(ps, "newName").v = ""
    THEN ParamOf(ps, "name").v \o " (2)"
    ELSE ParamOf(ps, "newName").v

\* C14: create_sheet(n) and rename_sheet(_, n) when n is already a sheet name, and
\* copy_sheet whose resulting name is already a sheet name, return a failure envelope and
\* leave the whole workbook unchanged
C14_NameCollisionFails ==
    [][(\/ tool' = "create_sheet" /\ HasSheet(Sim, ParamOf(params', "name").v)
        \/ tool' = "rename_sheet" /\ HasSheet(Sim, ParamOf(params', "newName").v)
        \/ tool' = "copy_sheet" /\ HasSheet(Sim, CopiedName(params')))
           => (Failed' /\ Sim' = Sim)]_vars

\* create_sheet("X") was called on a workbook that already has the sheet X
C14_Witness ==
    /\ tool = "create_sheet"
    /\ ParamOf(params, "name").v = "X"
    /\ Failed /\ result.error = Some("Sheet 'X' already exists")
    /\ Len(sheets) = 2 /\ HasSheet(Sim, "X")

\* C15: delete_sheet of the only sheet returns the failure 'Cannot delete the last sheet'
\* and leaves the workbook unchanged; delete_sheet of a sheet other than the active one
\* leaves active_sheet unchanged
C15_DeleteSheet ==
    [][tool' = "delete_sheet" =>
           /\ (Len(sheets) = 1 /\ HasSheet(Sim, ParamOf(params', "name").v))
                  => (/\ result' = _error_result("Cannot delete the last sheet")
                      /\ Sim' = Sim)
           /\ ParamOf(params', "name").v # active_sheet => active_sheet' = active_sheet]_vars

\* delete_sheet("X") was refused while X, created later, is the only sheet left
C15_Witness ==
    /\ tool = "delete_sheet"
    /\ ParamOf(params, "name").v = "X"
    /\ Failed /\ result.error = Some("Cannot delete the last sheet")
    /\ Len(sheets) = 1 /\ sheets[1].name = "X"

----------------------------------------------------------------------------
(* The dispatcher under table, chart, named-range and comment tool calls *)

MaxEntities == 2

\* create_chart calls made in one run
MaxCharts == 3

\* tables, charts, named ranges and comments held by the simulator
EntityCount == Len(tables) + Len(charts) + Len(named_ranges) + Len(comments)

TableTools ==
    {"add_table_rows", "get_table_data", "delete_table", "sort_table", "filter_table",
     "clear_table_filters", "add_table_column", "delete_table_column",
     "convert_table_to_range"}

ChartTools == {"delete_chart", "set_chart_title", "set_chart_type", "set_chart_data_source"}

CommentTools == {"edit_comment", "delete_comment"}

\* the arguments a table tool takes besides tableName
TableToolArgs ==
    ("add_table_rows" :> <<KW("values", Some(<<<<1, 2>>>>))>>) @@
    ("sort_table" :> <<KW("column", Some(0)), KW("ascending", None)>>) @@
    ("filter_table" :> <<KW("column", Some("a")), KW("values", Some(<<"x">>))>>) @@
    ("add_table_column" :> <<KW("columnName", None), KW("columnData", None)>>) @@
    ("delete_table_column" :> <<KW("columnName", Some("a"))>>) @@
    [tn \in {"get_table_data", "delete_table", "clear_table_filters",
             "convert_table_to_range"} |-> <<>>]

\* the arguments a chart tool takes besides chartName and sheetName
ChartToolArgs ==
    ("delete_chart" :> <<>>) @@
    ("set_chart_title" :> <<KW("title", Some("Sales"))>>) @@
    ("set_chart_type" :> <<KW("chartType", Some("line"))>>) @@
    ("set_chart_data_source" :> <<KW("dataRange", Some("C1:D2"))>>)

\* the arguments a comment tool takes besides cellAddress and sheetName
CommentToolArgs ==
    ("edit_comment" :> <<KW("newText", Some("later"))>>) @@
    ("delete_comment" :> <<>>)

tool_create_table ==
    \E a \in {"A1:B2", "C1"}, n \in {"T"}, named \in BOOLEAN, sn \in {None} :
        /\ Registered("create_table")
        /\ EntityCount < MaxEntities \/ (named /\ HasKey(tables, n))
        /\ Dispatch("create_table",
                    <<KW("address", Some(a)), KW("name", Opt(named, n)),
                      KW("hasHeaders", None), KW("sheetName", sn)>>)

tool_table_op ==
    \E tn \in TableTools, t \in {"T", "Ghost"} :
        /\ Registered(tn)
        /\ Dispatch(tn, <<KW("tableName", Some(t))>> \o TableToolArgs[tn])

tool_create_chart ==
    \E dr \in {"A1:B2"}, ct \in {"bar"}, sn \in {None} :
        /\ Registered("create_chart")
        /\ EntityCount < MaxEntities
        /\ chart_counter < MaxCharts
        /\ Dispatch("create_chart",
                    <<KW("dataRange", Some(dr)), KW("chartType", Some(ct)),
                      KW("title", None), KW("sheetName", sn)>>)

tool_chart_op ==
    \E tn \in ChartTools, c \in {"Chart 1", "Chart 2", "Ghost"}, sn \in {None} :
        /\ Registered(tn)
        /\ Dispatch(tn, <<KW("chartName", Some(c))>> \o ChartToolArgs[tn]
                        \o <<KW("sheetName", sn)>>)

tool_define_named_range ==
    \E n \in {"N"}, a \in {"A1", "B2"}, sn \in OwningSheetOpts \ {None} :
        /\ Registered("define_named_range")
        /\ EntityCount < MaxEntities \/ HasKey(named_ranges, n)
        /\ Dispatch("define_named_range",
                    <<KW("name", Some(n)), KW("address", Some(a)), KW("sheetName", sn)>>)

tool_add_comment ==
    \E a \in {"A1"}, t \in {"first"}, sn \in {None} :
        /\ Registered("add_comment")
        /\ EntityCount < MaxEntities
        /\ Dispatch("add_comment",
                    <<KW("cellAddress", Some(a)), KW("text", Some(t)), KW("sheetName", sn)>>)

tool_comment_op ==
    \E tn \in CommentTools, a \in {"A1", "B1"}, sn \in {None} :
        /\ Registered(tn)
        /\ Dispatch(tn, <<KW("cellAddress", Some(a))>> \o CommentToolArgs[tn]
                        \o <<KW("sheetName", sn)>>)

NextEntities ==
    \/ tool_create_table
    \/ tool_table_op
    \/ tool_create_chart
    \/ tool_chart_op
    \/ tool_define_named_range
    \/ tool_add_comment
    \/ tool_comment_op

SpecEntities == Init /\ [][NextEntities]_vars

\* C16 (as claimed): create_table with the name of an existing table and
\* define_named_range with the name of an existing named range return a failure envelope
\* and leave the existing table and named range as they were
C16_CreateOnUsedNameFails ==
    [][(\/ /\ tool' = "create_table"
           /\ ~ParamOf(params', "name").none
           /\ HasKey(tables, ParamOf(params', "name").v)
        \/ /\ tool' = "define_named_range"
           /\ HasKey(named_ranges, ParamOf(params', "name").v))
           => (Failed' /\ tables' = tables /\ named_ranges' = named_ranges)]_vars

\* C17: a table operation naming a table that does not exist, a chart operation naming a
\* chart that does not exist, and edit_comment/delete_comment on an (address, sheet) pair
\* without a comment return a failure envelope, raise nothing and leave the workbook
\* unchanged
C17_NotFoundFails ==
    [][(\/ /\ tool' \in TableTools
           /\ ~HasKey(tables, ParamOf(params', "tableName").v)
        \/ /\ tool' \in ChartTools
           /\ ~HasKey(charts, ParamOf(params', "chartName").v)
        \/ /\ tool' \in CommentTools
           /\ CommentsAt(Sim, ParamOf(params', "cellAddress").v,
                         ParamOf(params', "sheetName")) = {})
           => (/\ "returned" \in DOMAIN response'
               /\ Failed'
               /\ Sim' = Sim)]_vars

\* delete_table("Ghost") was refused on a workbook that holds the table T
C17_Witness ==
    /\ tool = "delete_table"
    /\ ParamOf(params, "tableName").v = "Ghost"
    /\ Failed /\ result.error = Some("Table 'Ghost' not found")
    /\ HasKey(tables, "T")

\* C19: get_used_range called without a row cap returns exactly the members address,
\* rowCount and columnCount, and no values; on a sheet with no cells it returns
\* {address: "A1", rowCount: 1, columnCount: 1}
C19_DimensionsOnly ==
    (tool = "get_used_range" /\ Succeeded /\ ParamOf(params, "maxRows").none) =>
        /\ DOMAIN result.value.object = {"address", "rowCount", "columnCount"}
        /\ DOMAIN GetSheet(Sim, ResolvedSheet).cells = {} =>
               result.value.object = [address |-> "A1", rowCount |-> 1, columnCount |-> 1]

\* get_used_range() without a cap on a sheet that holds a 2x2 block of values
C19_Witness ==
    /\ tool = "get_used_range" /\ Succeeded
    /\ ParamOf(params, "maxRows").none
    /\ {"A1", "B2"} \subseteq DOMAIN GetSheet(Sim, ResolvedSheet).cells
    /\ result.value.object = [address |-> "A1:B2", rowCount |-> 2, columnCount |-> 2]

\* C20 (as claimed): get_used_range called with a row cap returns, besides the bounding
\* box, a values grid of the first min(max_rows, rowCount) rows, a truncation flag and
\* the count of rows returned, which equals the number of rows of the grid
C20_CappedRead ==
    (tool = "get_used_range" /\ Succeeded /\ ~ParamOf(params, "maxRows").none) =>
        LET capped(o, max_rows) ==
                /\ {"values", "truncated", "rowsReturned"} \subseteq DOMAIN o
                /\ Len(o.values) = IF max_rows < o.rowCount THEN max_rows ELSE o.rowCount
                /\ o.rowsReturned = Len(o.values)
        IN capped(result.value.object, ParamOf(params, "maxRows").v)

-----------------------------------------------------------------------------
(* Column letters <-> zero-based column indices *)

MaxIndex == 701

MaxColLen == 2

\* the strings of exactly n upper-case letters
RECURSIVE LetterStrings(_)
LetterStrings(n) ==
    IF n = 0 THEN {""}
    ELSE {Char(UpperLetters, i) \o s : i \in 1..Len(UpperLetters), s \in LetterStrings(n - 1)}

\* "A" .. "ZZ"
ColumnNames == UNION {LetterStrings(n) : n \in 1..MaxColLen}

ColumnIndexes == 0..MaxIndex

InitColumns ==
    /\ InitSim
    /\ NoManifest
    /\ tool = ""
    /\ \/ \E s \in ColumnNames : params = <<KW("col", Some(s))>>
       \/ \E n \in ColumnIndexes : params = <<KW("idx", Some(n))>>
    /\ remap_arg = None
    /\ result = None
    /\ response = None

\* result = _col_to_index(col)
call_col_to_index ==
    /\ result.none
    /\ params[1].k = "col"
    /\ result' = Some(_col_to_index(params[1].v.v))
    /\ UNCHANGED <<sheets, active_sheet, tables, charts, comments, conditional_formats,
                   data_validations, named_ranges, chart_counter,
                   tool, params, remap_arg, response, manifest, mcp_tools, called>>

\* result = _index_to_col(idx)
call_index_to_col ==
    /\ result.none
    /\ params[1].k = "idx"
    /\ result' = Some(_index_to_col(params[1].v.v))
    /\ UNCHANGED <<sheets, active_sheet, tables, charts, comments, conditional_formats,
                   data_validations, named_ranges, chart_counter,
                   tool, params, remap_arg, response, manifest, mcp_tools, called>>

NextColumns == call_col_to_index \/ call_index_to_col

SpecColumns == InitColumns /\ [][NextColumns]_vars

\* C23: converting a column name of one or two upper-case letters to its index and back
\* gives the name again, converting an index of 0..701 to its name and back gives the
\* index again, and A is column 0, Z column 25, AA column 26
C23_ColumnRoundTrip ==
    /\ _col_to_index("A") = 0 /\ _col_to_index("Z") = 25 /\ _col_to_index("AA") = 26
    /\ _index_to_col(0) = "A" /\ _index_to_col(25) = "Z" /\ _index_to_col(26) = "AA"
    /\ ~result.none =>
        IF params[1].k = "col"
        THEN _index_to_col(result.v) = params[1].v.v
        ELSE _col_to_index(result.v) = params[1].v.v

\* the last two-letter column has been converted to the last index
C23_Witness ==
    /\ ~result.none
    /\ params[1].k = "col"
    /\ params[1].v.v = "ZZ"
    /\ result.v = 701

\* the names of the charts held by the simulator
ChartNames == {charts[i].name : i \in DOMAIN charts}

\* "Chart k" for the k of the create_chart calls made so far
IssuedChartNames == {"Chart " \o ToString(k) : k \in 1..chart_counter}

\* C28: across create_chart and delete_chart calls the chart counter never decreases, the
\* k-th create_chart returns and stores the name "Chart k", which no earlier call was
\* given, and it leaves every existing chart as it was; the charts held have distinct names
C28_ChartNamesNeverReissued ==
    /\ [](/\ ChartNames \subseteq IssuedChartNames
          /\ \A i, j \in DOMAIN charts : charts[i].name = charts[j].name => i = j)
    /\ [][chart_counter' >= chart_counter]_vars
    /\ [][tool' = "create_chart" =>
              /\ Succeeded'
              /\ chart_counter' = chart_counter + 1
              /\ result'.value.object.name = "Chart " \o ToString(chart_counter')
              /\ result'.value.object.name \notin IssuedChartNames
              /\ charts' = Append(charts, Lookup(charts', result'.value.object.name))]_vars
    /\ [][tool' # "create_chart" => chart_counter' = chart_counter]_vars

\* the third create_chart, made after "Chart 1" was deleted, has stored "Chart 3" next to
\* "Chart 2"
C28_Witness ==
    /\ tool = "create_chart"
    /\ Succeeded
    /\ chart_counter = 3
    /\ ChartNames = {"Chart 2", "Chart 3"}

-----------------------------------------------------------------------------
(* The dispatcher under range writes, clears, formats, copies and merges on two sheets *)

MaxMerged == 1

\* merged ranges recorded over all sheets
RECURSIVE MergedCount(_)
MergedCount(ss) == IF ss = <<>> THEN 0 ELSE Len(Head(ss).merged) + MergedCount(Tail(ss))

\* 2D value grids a caller writes: no rows, and a value next to an empty string
GridArgs == {<<>>, <<<<"x", "">>>>}

\* the initial sheet or the active one, and the second sheet
SecondSheetOpts == {None, Some("X")}

FirstSheetOpts == {None, Some("Sheet1")}

range_create_sheet ==
    \E n \in {"X"} :
        /\ Registered("create_sheet")
        /\ Dispatch("create_sheet", <<KW("name", Some(n))>>)

range_copy_sheet ==
    \E n \in {"Sheet1"}, nn \in {"X"} :
        /\ Registered("copy_sheet")
        /\ Dispatch("copy_sheet", <<KW("name", Some(n)), KW("newName", Some(nn))>>)

range_activate_sheet ==
    \E n \in {"Sheet1", "X"} :
        /\ Registered("activate_sheet")
        /\ Dispatch("activate_sheet", <<KW("name", Some(n))>>)

range_set_range_values ==
    \E a \in {"A1", "A1:B1"}, v \in GridArgs, sn \in {None} :
        /\ Registered("set_range_values")
        /\ Dispatch("set_range_values",
                    <<KW("address", Some(a)), KW("values", Some(v)), KW("sheetName", sn)>>)

range_get_used_range ==
    \E sn \in {None} :
        /\ Registered("get_used_range")
        /\ Dispatch("get_used_range", <<KW("sheetName", sn)>>)

range_clear_range ==
    \E a \in {"A1", "A1:B1"}, sn \in {None} :
        /\ Registered("clear_range")
        /\ Dispatch("clear_range", <<KW("address", Some(a)), KW("sheetName", sn)>>)

range_format_range ==
    \E a \in {"A1"}, sn \in SecondSheetOpts, b \in {TRUE} :
        /\ Registered("format_range")
        /\ Dispatch("format_range",
                    <<KW("address", Some(a)), KW("sheetName", sn), KW("bold", Some(b))>>)

range_copy_range ==
    \E sa \in {"A1:B1"}, da \in {"A1"}, ssn \in SecondSheetOpts, dsn \in SecondSheetOpts :
        /\ Registered("copy_range")
        /\ Dispatch("copy_range",
                    <<KW("sourceAddress", Some(sa)), KW("destinationAddress", Some(da)),
                      KW("sourceSheetName", ssn), KW("destinationSheetName", dsn)>>)

range_merge_cells ==
    \E a \in {"X!A1:B1"}, sn \in FirstSheetOpts :
        /\ Registered("merge_cells")
        /\ MergedCount(sheets) < MaxMerged
        /\ Dispatch("merge_cells", <<KW("address", Some(a)), KW("sheetName", sn)>>)

range_unmerge_cells ==
    \E a \in {"X!A1:B1"}, sn \in {None} :
        /\ Registered("unmerge_cells")
        /\ Dispatch("unmerge_cells", <<KW("address", Some(a)), KW("sheetName", sn)>>)

NextRange ==
    \/ range_create_sheet
    \/ range_copy_sheet
    \/ range_activate_sheet
    \/ range_set_range_values
    \/ range_get_used_range
    \/ range_clear_range
    \/ range_format_range
    \/ range_copy_range
    \/ range_merge_cells
    \/ range_unmerge_cells

SpecRange == Init /\ [][NextRange]_vars

\* the refs of the cells of a sheet that hold a value other than the empty string
NonEmptyRefs(sheet) == {ref \in DOMAIN sheet.cells : sheet.cells[ref] # ""}

\* the block s..e contains every ref of the set and each of its four edges contains one
MinimalBox(s, e, refs) ==
    LET col(ref) == _col_to_index(_parse_cell(ref).col)
        row(ref) == _parse_cell(ref).row
    IN /\ \A ref \in refs : /\ _col_to_index(s.col) <= col(ref) /\ col(ref) <= _col_to_index(e.col)
                            /\ s.row <= row(ref) /\ row(ref) <= e.row
       /\ \E ref \in refs : col(ref) = _col_to_index(s.col)
       /\ \E ref \in refs : col(ref) = _col_to_index(e.col)
       /\ \E ref \in refs : row(ref) = s.row
       /\ \E ref \in refs : row(ref) = e.row

\* C21 (as claimed): on a sheet that has a non-empty cell, the address, rowCount and
\* columnCount returned by get_used_range describe the minimal rectangle of the cells
\* holding a value other than the empty string; cells holding the empty string do not
\* extend it
C21_UsedRangeMinimal ==
    LET box(s, e, refs) ==
            /\ MinimalBox(s, e, refs)
            /\ result.value.object.rowCount = e.row - s.row + 1
            /\ result.value.object.columnCount = _col_to_index(e.col) - _col_to_index(s.col) + 1
        described(p, refs) == box(_parse_cell(p.start), _parse_cell(p.end), refs)
    IN (/\ tool = "get_used_range"
        /\ Succeeded
        /\ NonEmptyRefs(GetSheet(Sim, ResolvedSheet)) # {})
           => described(_parse_range(result.value.object.address),
                        NonEmptyRefs(GetSheet(Sim, ResolvedSheet)))

\* the sheet a range call with arguments ps addresses: the address qualifier, else the
\* sheet name passed, else the active sheet
AddressedSheet(ps) ==
    Or(Or(_parse_range(ParamOf(ps, "address").v).sheet, ParamOf(ps, "sheetName")),
       Some(active_sheet)).v

\* the cell refs of the block an address names
AddressedRefs(address) ==
    LET block(p) == BlockRefs(_parse_cell(p.start), _parse_cell(p.end))
    IN block(_parse_range(address))

\* C22 (as claimed): a clear_range on a range none of whose cells holds a value reports
\* cellsCleared = 0 and leaves cell values, formulas, format attributes and number formats
\* of the sheet unchanged; a second clear_range of the same range right after a first
\* reports 0 and changes nothing
C22_ClearIdempotent ==
    [][(/\ tool' = "clear_range"
        /\ Succeeded'
        /\ \/ AddressedRefs(ParamOf(params', "address").v)
                  \cap DOMAIN GetSheet(Sim, AddressedSheet(params')).cells = {}
           \/ (tool = "clear_range" /\ Succeeded /\ params' = params))
           => (/\ result'.value.object.cellsCleared = 0
               /\ sheets' = sheets)]_vars

\* the range tools modelled that take an address and a sheet name
AddressTools ==
    {"get_range_values", "set_range_values", "clear_range", "format_range",
     "set_number_format", "merge_cells", "unmerge_cells"}

\* C24 (as claimed): when a range tool is given an address whose qualifier names an
\* existing sheet and a sheet name that names a different existing sheet, the call
\* leaves the explicitly named sheet, and every sheet but the qualifier's, untouched
C24_QualifierWins ==
    [][LET qualifier(ps) == _parse_range(ParamOf(ps, "address").v).sheet
           conflict(q, sn) ==
               /\ ~q.none /\ ~sn.none
               /\ q.v # sn.v
               /\ HasSheet(Sim, q.v) /\ HasSheet(Sim, sn.v)
       IN (/\ tool' \in AddressTools
           /\ conflict(qualifier(params'), ParamOf(params', "sheetName")))
              => \A i \in DOMAIN sheets :
                     sheets[i].name # qualifier(params').v => sheets'[i] = sheets[i]]_vars

\* the address that keeps the qualifier and the start cell of an address and drops its end
StartOnly(address) ==
    LET bang == str_find(address, "!")
        start(cells, colon) == IF colon > 0 THEN SubSeq(cells, 1, colon - 1) ELSE cells
        cut(cells) == start(cells, str_find(cells, ":"))
    IN SubSeq(address, 1, bang) \o cut(SubSeq(address, bang + 1, Len(address)))

\* C25 (as claimed): a successful set_range_values leaves the sheets as the same write to
\* the start cell alone leaves them, reports rowsWritten = the number of rows of V and
\* columnsWritten = the length of its longest row, and returns an address start:end whose
\* end is a well-formed cell reference rowsWritten - 1 rows and columnsWritten - 1 columns
\* from the start, so that the block it names has rowsWritten rows of columnsWritten cells
C25_StartCellOnly ==
    [][LET written == result'.value.object
           V == ParamOf(params', "values").v
           offset(s, e) ==
               /\ e.row = s.row + written.rowsWritten - 1
               /\ _col_to_index(e.col) = _col_to_index(s.col) + written.columnsWritten - 1
           block(s, e) ==
               /\ offset(s, e)
               /\ Cardinality(BlockRefs(s, e)) = written.rowsWritten * written.columnsWritten
           returned(p) ==
               /\ CellMatches(p.start) /\ CellMatches(p.end)
               /\ block(_parse_cell(p.start), _parse_cell(p.end))
       IN (tool' = "set_range_values" /\ Succeeded')
              => /\ sheets' = set_range_values(Sim, StartOnly(ParamOf(params', "address").v), V,
                                               ParamOf(params', "sheetName")).sim.sheets
                 /\ written.rowsWritten = Len(V)
                 /\ written.columnsWritten = MaxRowLen(V)
                 /\ returned(_parse_range(written.address))]_vars

\* the sheet a copy_range call with arguments ps writes to
DestinationSheet(ps) ==
    Or(Or(_parse_range(ParamOf(ps, "destinationAddress").v).sheet,
          ParamOf(ps, "destinationSheetName")),
       Some(active_sheet)).v

\* C26: a copy_range call has the effect and the result of get_range_values on its source
\* followed by set_range_values of the grid read at its destination; on success the block
\* of the grid's shape at the destination's start cell holds the grid read; when the read
\* returns a failure envelope copy_range returns that envelope and changes no sheet
C26_CopyIsReadThenWrite ==
    [][LET ps == params'
           reads_back(cells, s, grid) ==
               ReadGrid(cells, s.row, s.row + Len(grid) - 1, _col_to_index(s.col),
                        _col_to_index(s.col) + MaxRowLen(grid) - 1) = grid
           written(write, grid) ==
               /\ ~Raised(write)
               /\ Sim' = write.sim
               /\ result' = write.ret
               /\ Succeeded' =>
                      reads_back(GetSheet(Sim', DestinationSheet(ps)).cells,
                                 _parse_cell(_parse_range(ParamOf(ps, "destinationAddress").v).start),
                                 grid)
           copied(read) ==
               /\ ~Raised(read)
               /\ IF ~read.ret.success
                  THEN result' = read.ret /\ Sim' = Sim
                  ELSE written(set_range_values(Sim, ParamOf(ps, "destinationAddress").v,
                                                read.ret.value.array,
                                                ParamOf(ps, "destinationSheetName")),
                               read.ret.value.array)
       IN tool' = "copy_range"
              => copied(get_range_values(Sim, ParamOf(ps, "sourceAddress").v,
                                         ParamOf(ps, "sourceSheetName")))]_vars

\* the row "x", "" of sheet X was copied to A1 of the active sheet Sheet1
C26_Witness ==
    /\ tool = "copy_range" /\ Succeeded
    /\ ParamOf(params, "sourceSheetName") = Some("X")
    /\ ParamOf(params, "destinationSheetName").none
    /\ active_sheet = "Sheet1"
    /\ GetSheet(Sim, "X").cells = ("A1" :> "x") @@ ("B1" :> "")
    /\ GetSheet(Sim, "Sheet1").cells = ("A1" :> "x") @@ ("B1" :> "")
    /\ result.value.object.rowsWritten = 1 /\ result.value.object.columnsWritten = 2

\* the range tools that write to a sheet
RangeWriteTools ==
    {"set_range_values", "clear_range", "format_range", "set_number_format", "copy_range",
     "merge_cells", "unmerge_cells"}

-----------------------------------------------------------------------------
(* The dispatcher under sheet lifecycle calls mixed with unqualified writes and entity
   creations *)

MaxOwned == 1

\* the records the simulator holds outside its sheets
OwnedCount ==
    Len(tables) + Len(charts) + Len(comments) + Len(conditional_formats)
    + Len(data_validations) + Len(named_ranges)

\* tools that record an owning sheet, called without a sheet name
OwnedTools ==
    {"add_comment", "create_table", "create_chart", "set_list_validation",
     "add_color_scale", "define_named_range"}

OwnedToolArgs ==
    ("add_comment" :> <<KW("cellAddress", Some("A1")), KW("text", Some("first"))>>) @@
    ("create_table" :> <<KW("address", Some("A1:B2"))>>) @@
    ("create_chart" :> <<KW("dataRange", Some("A1:B2")), KW("chartType", Some("bar"))>>) @@
    ("set_list_validation" :> <<KW("address", Some("A1"))>>) @@
    ("add_color_scale" :> <<KW("address", Some("A1")), KW("minColor", Some("red"))>>) @@
    ("define_named_range" :> <<KW("name", Some("N")), KW("address", Some("A1"))>>)

\* tools that write to a sheet, called with an unqualified address and no sheet name
UnqualifiedTools == {"set_range_values", "clear_range", "format_range"}

UnqualifiedToolArgs ==
    ("set_range_values" :> <<KW("values", Some(<<<<"x">>>>))>>) @@
    ("clear_range" :> <<>>) @@
    ("format_range" :> <<KW("bold", Some(TRUE))>>)

wb_sheet_op ==
    \E tn \in {"create_sheet", "delete_sheet", "activate_sheet"}, n \in {"Sheet1", "X"} :
        /\ Registered(tn)
        /\ Dispatch(tn, <<KW("name", Some(n))>>)

wb_rename_sheet ==
    \E c \in {"Sheet1", "X"}, n \in {"Sheet1", "X"} :
        /\ Registered("rename_sheet")
        /\ Dispatch("rename_sheet", <<KW("currentName", Some(c)), KW("newName", Some(n))>>)

wb_write ==
    \E tn \in UnqualifiedTools, a \in {"A1"} :
        /\ Registered(tn)
        /\ Dispatch(tn, <<KW("address", Some(a))>> \o UnqualifiedToolArgs[tn]
                        \o <<KW("sheetName", None)>>)

wb_create_owned ==
    \E tn \in OwnedTools :
        /\ Registered(tn)
        /\ OwnedCount < MaxOwned
        /\ Dispatch(tn, OwnedToolArgs[tn] \o <<KW("sheetName", None)>>)

NextWorkbook ==
    \/ wb_sheet_op
    \/ wb_rename_sheet
    \/ wb_write
    \/ wb_create_owned

SpecWorkbook == Init /\ [][NextWorkbook]_vars

\* the sheets of a sequence, as a set
SheetSet(ss) == {ss[i] : i \in DOMAIN ss}

\* C29: a successful delete_sheet(S) removes sheet S alone and a successful
\* rename_sheet(S, N) renames sheet S alone; both leave every table, chart, comment,
\* conditional format, data validation and named range as it was, those owned by S
\* included; no sheet call and no range write removes or changes one of these records
C29_NoImplicitDestruction ==
    [][LET S == IF tool' = "delete_sheet" THEN ParamOf(params', "name").v
                ELSE ParamOf(params', "currentName").v
           renamed(sheet) ==
               IF sheet.name = S THEN [sheet EXCEPT !.name = ParamOf(params', "newName").v]
               ELSE sheet
       IN /\ (tool' = "delete_sheet" /\ Succeeded')
                 => /\ HasSheet(Sim, S)
                    /\ SheetSet(sheets') = SheetSet(sheets) \ {GetSheet(Sim, S)}
          /\ (tool' = "rename_sheet" /\ Succeeded')
                 => /\ HasSheet(Sim, S)
                    /\ SheetSet(sheets') = {renamed(sheets[i]) : i \in DOMAIN sheets}
          /\ tool' \notin OwnedTools
                 => UNCHANGED <<tables, charts, comments, conditional_formats,
                                data_validations, named_ranges, chart_counter>>]_vars

\* sheet X was deleted while a comment it owns is still recorded
C29_Witness ==
    /\ tool = "delete_sheet" /\ Succeeded
    /\ ParamOf(params, "name").v = "X"
    /\ ~HasSheet(Sim, "X")
    /\ Len(comments) = 1 /\ comments[1].sheet_name = "X"

\* the sheets after the unqualified range call of the step, had it named sheet S
WrittenNaming(S) ==
    LET a == ParamOf(params', "address").v
    IN CASE tool' = "set_range_values" ->
                set_range_values(Sim, a, ParamOf(params', "values").v, Some(S)).sim.sheets
         [] tool' = "clear_range" -> clear_range(Sim, a, Some(S)).sim.sheets
         [] tool' = "format_range" ->
                format_range(Sim, a, Some(S), [bold |-> ParamOf(params', "bold").v]).sim.sheets

\* the record an entity creation of the step has stored
CreatedRecord ==
    CASE tool' = "add_comment" -> comments'[Len(comments')]
      [] tool' = "create_table" -> Lookup(tables', result'.value.object.name)
      [] tool' = "create_chart" -> Lookup(charts', result'.value.object.name)
      [] tool' = "set_list_validation" -> data_validations'[Len(data_validations')]
      [] tool' = "add_color_scale" -> conditional_formats'[Len(conditional_formats')]
      [] tool' = "define_named_range" -> Lookup(named_ranges', ParamOf(params', "name").v)

\* C30: a successful activate_sheet(S) makes S the active sheet; a set_range_values,
\* clear_range or format_range call without a sheet name and without a qualifier does to
\* the sheets what the same call naming the active sheet does and leaves every other sheet
\* unchanged; an entity creation without a sheet name records the active sheet as owner
C30_ActiveSheetResolves ==
    [][/\ (tool' = "activate_sheet" /\ Succeeded')
              => active_sheet' = ParamOf(params', "name").v
       /\ (tool' \in UnqualifiedTools /\ ParamOf(params', "sheetName").none)
              => /\ Succeeded'
                 /\ sheets' = WrittenNaming(active_sheet)
                 /\ \A i \in DOMAIN sheets :
                        sheets[i].name # active_sheet => sheets'[i] = sheets[i]
                 /\ active_sheet' = active_sheet
       /\ (tool' \in OwnedTools /\ ParamOf(params', "sheetName").none)
              => /\ Succeeded'
                 /\ CreatedRecord.sheet_name = active_sheet
                 /\ active_sheet' = active_sheet]_vars

\* after activate_sheet(X), an unqualified write has filled A1 of X alone and the comment
\* added next names X as its sheet
C30_Witness ==
    /\ tool = "add_comment" /\ Succeeded
    /\ active_sheet = "X"
    /\ HasSheet(Sim, "Sheet1") /\ HasSheet(Sim, "X")
    /\ GetSheet(Sim, "X").cells = ("A1" :> "x")
    /\ GetSheet(Sim, "Sheet1").cells = EmptyDict
    /\ Len(comments) = 1 /\ comments[1].sheet_name = "X"

-----------------------------------------------------------------------------
(* The dispatcher under table creation, deletion and reads mixed with sheet lifecycle
   calls *)

MaxTables == 2

tb_create_table ==
    \E a \in {"A1:B2"} :
        /\ Registered("create_table")
        /\ Len(tables) < MaxTables
        /\ Dispatch("create_table",
                    <<KW("address", Some(a)), KW("name", None), KW("sheetName", None)>>)

tb_table_op ==
    \E tn \in {"get_table_data", "delete_table"}, t \in {"Table1", "Table2"} :
        /\ Registered(tn)
        /\ Dispatch(tn, <<KW("tableName", Some(t))>>)

tb_copy_range ==
    \E sa \in {"A1"}, da \in {"A1"}, ssn \in SecondSheetOpts, dsn \in {"X"} :
        /\ Registered("copy_range")
        /\ Dispatch("copy_range",
                    <<KW("sourceAddress", Some(sa)), KW("destinationAddress", Some(da)),
                      KW("sourceSheetName", ssn), KW("destinationSheetName", Some(dsn))>>)

NextTables ==
    \/ wb_sheet_op
    \/ wb_rename_sheet
    \/ wb_write
    \/ tb_create_table
    \/ tb_table_op
    \/ tb_copy_range

SpecTables == Init /\ [][NextTables]_vars

\* C38: get_table_data on an existing table whose address has no sheet qualifier returns
\* the failure envelope "Sheet '<owner>' not found" whenever no sheet of the workbook bears
\* the name of the table's owning sheet: it does not raise and reads no other sheet
C38_OrphanTableReadFails ==
    LET orphan(table) ==
            /\ _parse_range(table.address).sheet.none
            /\ ~HasSheet(Sim, table.sheet_name)
        fails(table) ==
            /\ "returned" \in DOMAIN response
            /\ Failed
            /\ result.error = Some("Sheet '" \o table.sheet_name \o "' not found")
            /\ response.returned = json_dumps(Obj([error |-> result.error.v]))
        reads(table) ==
            /\ Succeeded
            /\ result.value.object.values
                   = get_range_values(Sim, table.address, Some(table.sheet_name)).ret.value
        settled(table) ==
            /\ orphan(table) => fails(table)
            /\ (_parse_range(table.address).sheet.none /\ HasSheet(Sim, table.sheet_name))
                   => reads(table)
    IN (tool = "get_table_data" /\ HasKey(tables, ParamOf(params, "tableName").v))
           => settled(Lookup(tables, ParamOf(params, "tableName").v))

\* C38 as stated: once a table's owning sheet is gone, every later read of the table,
\* for as long as the table exists, fails
C38_OnceOrphanedAlwaysFails ==
    [][\A i \in DOMAIN tables :
           (/\ _parse_range(tables[i].address).sheet.none
            /\ ~HasSheet(Sim, tables[i].sheet_name)
            /\ HasKey(tables', tables[i].name)
            /\ Lookup(tables', tables[i].name) = tables[i])
               => LET out == get_table_data(Sim', tables[i].name)
                  IN ~Raised(out) /\ ~out.ret.success]_vars

\* Table1 was created on X, X was deleted, and the read of Table1 failed although the
\* active sheet Sheet1 holds a value in the table's block
C38_Witness ==
    /\ tool = "get_table_data" /\ Failed
    /\ ParamOf(params, "tableName").v = "Table1"
    /\ HasKey(tables, "Table1") /\ Lookup(tables, "Table1").sheet_name = "X"
    /\ ~HasSheet(Sim, "X")
    /\ active_sheet = "Sheet1"
    /\ "A1" \in DOMAIN GetSheet(Sim, "Sheet1").cells
    /\ result.error = Some("Sheet 'X' not found")

\* C35: a call that returns a failure envelope leaves sheets, active sheet, tables, charts,
\* comments, conditional formats, data validations, named ranges and the chart counter
\* exactly as they were before the call
C35_FailureChangesNothing == [][Failed' => Sim' = Sim]_vars

\* copy_range read its source on the active sheet, which holds a value, and failed on the
\* missing destination sheet X
C35_Witness ==
    /\ tool = "copy_range" /\ Failed
    /\ ParamOf(params, "sourceSheetName").none
    /\ ParamOf(params, "destinationSheetName") = Some("X")
    /\ result.error = Some("Sheet 'X' not found")
    /\ "A1" \in DOMAIN GetSheet(Sim, active_sheet).cells
    /\ Len(tables) >= 1

\* C39: a create_table step never changes an existing table; without a name it derives
\* "Table<n+1>" from the number n of tables: when a table of that name exists it returns
\* the failure "Table '<name>' already exists" and leaves the tables as they were,
\* otherwise it appends the table under that name
C39_CreateTableNeverOverwrites ==
    [][LET derived == "Table" \o ToString(Len(tables) + 1)
       IN tool' = "create_table"
              => /\ \A i \in DOMAIN tables : i \in DOMAIN tables' /\ tables'[i] = tables[i]
                 /\ ParamOf(params', "name").none
                        => IF HasKey(tables, derived)
                           THEN /\ Failed'
                                /\ result'.error = Some("Table '" \o derived \o "' already exists")
                                /\ tables' = tables
                           ELSE /\ Succeeded'
                                /\ result'.value.object.name = derived
                                /\ Len(tables') = Len(tables) + 1
                                /\ tables'[Len(tables')].name = derived]_vars

\* after two unnamed tables were created and Table1 deleted, an unnamed create_table was
\* refused because the derived name Table2 is taken
C39_Witness ==
    /\ tool = "create_table" /\ Failed
    /\ ParamOf(params, "name").none
    /\ result.error = Some("Table 'Table2' already exists")
    /\ Len(tables) = 1 /\ tables[1].name = "Table2"

-----------------------------------------------------------------------------
(* The dispatcher under cell writes, formulas, replacement, reads and acknowledgements *)

ReadTools ==
    {"get_range_values", "get_range_formulas", "get_used_range", "find_values",
     "get_table_data", "get_data_validation", "get_workbook_info", "get_selected_range",
     "list_sheets", "list_tables", "list_charts", "list_named_ranges", "list_comments",
     "list_conditional_formats", "list_pivot_tables"}

AckTools ==
    {"sort_range", "insert_range", "delete_range", "auto_fit_columns", "auto_fit_rows",
     "remove_duplicates", "toggle_row_column_visibility", "set_cell_borders", "sort_table",
     "filter_table", "recalculate_workbook"}

\* the arguments each read or acknowledgement tool is called with
QuietToolArgs ==
    [tn \in ReadTools \cup AckTools |->
        CASE tn \in {"get_range_values", "get_range_formulas", "sort_range"} ->
                 <<KW("address", Some("A1:A2"))>>
          [] tn \in {"get_data_validation", "list_conditional_formats", "auto_fit_columns",
                     "auto_fit_rows"} -> <<KW("address", Some("A1"))>>
          [] tn = "find_values" -> <<KW("searchValue", Some("a"))>>
          [] tn = "get_table_data" -> <<KW("tableName", Some("Table1"))>>
          [] tn \in {"insert_range", "delete_range"} ->
                 <<KW("address", Some("A1")), KW("shift", Some("down"))>>
          [] tn = "remove_duplicates" ->
                 <<KW("address", Some("A1:A2")), KW("columns", Some(<<"A">>))>>
          [] tn = "toggle_row_column_visibility" ->
                 <<KW("address", Some("A:A")), KW("hidden", Some(TRUE)),
                   KW("target", Some("columns"))>>
          [] tn = "set_cell_borders" ->
                 <<KW("address", Some("A1")), KW("borderStyle", Some("thin"))>>
          [] tn = "sort_table" -> <<KW("tableName", Some("Table1")), KW("column", Some(0))>>
          [] tn = "filter_table" ->
                 <<KW("tableName", Some("Table1")), KW("column", Some("A")),
                   KW("values", Some(<<"ba">>))>>
          [] OTHER -> <<>>]

\* tools among them called on a sheet the workbook does not have
SheetScopedTools ==
    {"get_range_values", "find_values", "sort_range", "toggle_row_column_visibility"}

\* the text written to each cell
CellText == ("A1" :> "ba") @@ ("A2" :> "Ab")

cells_set_range_values ==
    \E a \in {"A1", "A2"} :
        /\ Registered("set_range_values")
        /\ Dispatch("set_range_values",
                    <<KW("address", Some(a)), KW("values", Some(<<<<CellText[a]>>>>))>>)

cells_set_range_formulas ==
    \E a \in {"B1"}, f \in {"=A2"} :
        /\ Registered("set_range_formulas")
        /\ Dispatch("set_range_formulas",
                    <<KW("address", Some(a)), KW("formulas", Some(<<<<f>>>>))>>)

cells_clear_range ==
    \E a \in {"A1:B1"} :
        /\ Registered("clear_range")
        /\ Dispatch("clear_range", <<KW("address", Some(a))>>)

cells_replace_values ==
    \E f \in {"a"}, r \in {"z"} :
        /\ Registered("replace_values")
        /\ Dispatch("replace_values", <<KW("find", Some(f)), KW("replace", Some(r))>>)

cells_create_table ==
    \E a \in {"A1:A2"}, n \in {"Table1"} :
        /\ Registered("create_table")
        /\ Dispatch("create_table", <<KW("address", Some(a)), KW("name", Some(n))>>)

cells_read ==
    \E tn \in ReadTools :
        /\ Registered(tn)
        /\ Dispatch(tn, QuietToolArgs[tn])

cells_acknowledge ==
    \E tn \in AckTools :
        /\ Registered(tn)
        /\ Dispatch(tn, QuietToolArgs[tn])

cells_on_missing_sheet ==
    \E tn \in SheetScopedTools :
        /\ Registered(tn)
        /\ Dispatch(tn, QuietToolArgs[tn] \o <<KW("sheetName", Some("Ghost"))>>)

NextCells ==
    \/ range_copy_sheet
    \/ cells_set_range_values
    \/ cells_set_range_formulas
    \/ cells_clear_range
    \/ cells_replace_values
    \/ cells_create_table
    \/ cells_read
    \/ cells_acknowledge
    \/ cells_on_missing_sheet

SpecCells == Init /\ [][NextCells]_vars

\* the cells of the sheet a replace_values or sort_range call without sheet name works on
ActiveCells == GetSheet(Sim, active_sheet).cells

\* the cells whose text holds find when case is ignored
CountedCells(cells, find) ==
    {k \in DOMAIN cells : Contains(str_lower(cells[k]), str_lower(find))}

\* C34: replace_values reports as replacements the number of cells whose text holds the
\* find string case-insensitively, substitutes in those cells only the occurrences of find
\* in find's own case, and leaves every other cell as it was
C34_ReplaceCountsIgnoringCase ==
    [][LET find == ParamOf(params', "find").v
           replace == ParamOf(params', "replace").v
           counted == CountedCells(ActiveCells, find)
       IN tool' = "replace_values"
              => /\ Succeeded'
                 /\ result'.value.object.replacements = Cardinality(counted)
                 /\ DOMAIN ActiveCells' = DOMAIN ActiveCells
                 /\ \A k \in DOMAIN ActiveCells :
                        ActiveCells'[k] = IF k \in counted
                                          THEN str_replace(ActiveCells[k], find, replace)
                                          ELSE ActiveCells[k]]_vars

\* a replacement of "a" was counted for A2 although its text "Ab" holds only "A", which is
\* still there
C34_Witness ==
    /\ tool = "replace_values" /\ Succeeded
    /\ ParamOf(params, "find").v = "a"
    /\ result.value.object.replacements >= 1
    /\ "A2" \in DOMAIN ActiveCells /\ ActiveCells["A2"] = "Ab"
    /\ "A2" \in CountedCells(ActiveCells, "a")
    /\ ~Contains(ActiveCells["A2"], "a")

\* C36: a read or acknowledgement-only call leaves sheets, active sheet, tables, charts,
\* comments, conditional formats, data validations, named ranges and the chart counter as
\* they were, and sort_range, insert_range and delete_range on the active sheet report
\* success
C36_QuietToolsChangeNothing ==
    [][tool' \in ReadTools \cup AckTools
           => /\ Sim' = Sim
              /\ (tool' \in {"sort_range", "insert_range", "delete_range"}
                      /\ params' = QuietToolArgs[tool']) => Succeeded']_vars

\* sort_range reported success on A1:A2 holding "ba" above "Ab", and they are still in
\* that order
C36_Witness ==
    /\ tool = "sort_range" /\ Succeeded
    /\ ParamOf(params, "address").v = "A1:A2"
    /\ {"A1", "A2"} \subseteq DOMAIN ActiveCells
    /\ ActiveCells["A1"] = "ba" /\ ActiveCells["A2"] = "Ab"

\* C37: in every sheet every cell reference that has a formula has a cell value
C37_FormulasHaveValues ==
    \A i \in DOMAIN sheets : DOMAIN sheets[i].formulas \subseteq DOMAIN sheets[i].cells

\* the formula of B1 was written, copied to sheet X with its value, and cleared with its
\* value from the active sheet
C37_Witness ==
    /\ tool = "clear_range" /\ Succeeded
    /\ HasSheet(Sim, "X")
    /\ "B1" \in DOMAIN GetSheet(Sim, "X").formulas
    /\ "B1" \in DOMAIN GetSheet(Sim, "X").cells
    /\ "B1" \notin DOMAIN ActiveCells
    /\ "B1" \notin DOMAIN GetSheet(Sim, active_sheet).formulas

-----------------------------------------------------------------------------
(* register_tools: the manifest loop, the synthesized handlers and their registration *)

\* the annotation base chosen for pdef.get("type", "string")
base_type(ptype) ==
    CASE ptype = "string" -> "str"
      [] ptype = "number" -> "float"
      [] ptype = "boolean" -> "bool"
      [] ptype = "string[]" -> "list[str]"
      [] ptype \in {"any[][]", "string[][]"} -> "list[list[Any]]"
      [] OTHER -> "str"

\* inspect.Parameter(pname, POSITIONAL_OR_KEYWORD, annotation=ann), with default=None when
\* has_default and inspect.Parameter.empty otherwise
Parameter(pname, base, has_default) ==
    [name |-> pname, annotation |-> base, has_default |-> has_default]

\* the docstring as its lines
_build_tool_docstring(tool_def) ==
    LET req(param) == IF Default(param.required, TRUE) THEN " (required)" ELSE " (optional)"
        line(param) == "    " \o param.name \o ": " \o param.description \o req(param)
    IN <<tool_def.description>>
           \o (IF tool_def.params = <<>> THEN <<>>
               ELSE <<"", "Args:">> \o [i \in DOMAIN tool_def.params |-> line(tool_def.params[i])])

\* a make_handler that keeps the parameters in manifest order
make_handler_in_manifest_order(tn, pm, tool_def) ==
    [tn |-> tn,
     name |-> tn,
     doc |-> _build_tool_docstring([description |-> tool_def.description, params |-> pm]),
     signature |-> [i \in DOMAIN pm |->
                       Parameter(pm[i].name, base_type(Default(pm[i].type, "string")),
                                 ~Default(pm[i].required, TRUE))]]

\* a make_handler whose handler reads the loop variable tool_name when it is called, after
\* the loop has ended
make_handler_late_binding(tn, pm, tool_def) ==
    LET sig_params == [i \in DOMAIN pm |->
                          Parameter(pm[i].name, base_type(Default(pm[i].type, "string")),
                                    ~Default(pm[i].required, TRUE))]
        is_required(p) == ~p.has_default
        is_optional(p) == p.has_default
    IN [tn |-> manifest[Len(manifest)].name,
        name |-> tn,
        doc |-> _build_tool_docstring([description |-> tool_def.description, params |-> pm]),
        signature |-> SelectSeq(sig_params, is_required) \o SelectSeq(sig_params, is_optional)]

\* make_handler(tn, pm): the handler function as its captured tn, its __name__, __doc__ and
\* __signature__; tool_def is the loop variable whose description the docstring takes
make_handler(tn, pm, tool_def) ==
    LET sig_params == [i \in DOMAIN pm |->
                          Parameter(pm[i].name, base_type(Default(pm[i].type, "string")),
                                    ~Default(pm[i].required, TRUE))]
        is_required(p) == ~p.has_default
        is_optional(p) == p.has_default
    IN [tn |-> tn,
        name |-> tn,
        doc |-> _build_tool_docstring([description |-> tool_def.description, params |-> pm]),
        signature |-> SelectSeq(sig_params, is_required) \o SelectSeq(sig_params, is_optional)]

\* a loop that skips no manifest entry
Skipped_never(tool_name) == FALSE

\* `if tool_name not in _TOOL_ROUTES: continue`
Skipped(tool_name) == tool_name \notin DOMAIN _TOOL_ROUTES

\* the loop of register_tools from the i-th manifest tool on; mcp.tool()(handler) appends
\* the handler to the server's tools under handler.__name__
RECURSIVE register_loop(_, _, _)
register_loop(tools, i, registered) ==
    IF i > Len(tools) THEN registered
    ELSE IF Skipped(tools[i].name) THEN register_loop(tools, i + 1, registered)
    ELSE register_loop(tools, i + 1,
                       Append(registered,
                              make_handler(tools[i].name, tools[i].params, tools[i])))

register_tools(tools, registered) == register_loop(tools, 1, registered)

-----------------------------------------------------------------------------
(* The server: register_tools on a manifest, then calls of the registered handlers *)

\* manifest tool names: two routed tools and one the route table does not have
ToolUniverse == {"create_sheet", "copy_sheet", "screenshot_range"}

ParamNames == {"name", "newName"}

\* the "type" entry of each manifest parameter; newName has none
ParamType == ("name" :> Some("string")) @@ ("newName" :> None)

\* "required": true, false or absent
RequiredOpts == {Some(TRUE), Some(FALSE), None}

\* the sequences over S in which no two entries have the same name
DistinctlyNamed(S) ==
    {s \in UNION {[1..n -> S] : n \in 0..Cardinality({x.name : x \in S})} :
        \A i, j \in DOMAIN s : s[i].name = s[j].name => i = j}

ParamDefs ==
    {[name |-> p, description |-> "d", type |-> ParamType[p], required |-> r] :
        p \in ParamNames, r \in RequiredOpts}

ToolDefs ==
    {[name |-> n, description |-> "d", params |-> pm] :
        n \in ToolUniverse \ {"screenshot_range"}, pm \in DistinctlyNamed(ParamDefs)}
        \cup {[name |-> "screenshot_range", description |-> "d", params |-> <<>>]}

InitRegister ==
    /\ InitSim
    /\ tool = ""
    /\ params = <<>>
    /\ remap_arg = None
    /\ result = None
    /\ response = None
    /\ manifest \in DistinctlyNamed(ToolDefs)
    /\ mcp_tools = <<>>
    /\ called = ""

\* register_tools(args.manifest), once, before mcp.run
call_register_tools ==
    /\ called = ""
    /\ mcp_tools' = register_tools(manifest, mcp_tools)
    /\ called' = "register_tools"
    /\ UNCHANGED <<sheets, active_sheet, tables, charts, comments, conditional_formats,
                   data_validations, named_ranges, chart_counter,
                   tool, params, remap_arg, result, response, manifest>>

\* the server has a tool of that name
Serving(n) == called # "" /\ \E i \in DOMAIN mcp_tools : mcp_tools[i].name = n

HandlerOf(n) == mcp_tools[CHOOSE i \in DOMAIN mcp_tools : mcp_tools[i].name = n]

\* the keyword arguments each tool is called with
HandlerArgs ==
    ("create_sheet" :> <<KW("name", Some("X"))>>) @@
    ("copy_sheet" :> <<KW("name", Some("Sheet1")), KW("newName", Some("X"))>>) @@
    ("screenshot_range" :> <<KW("address", Some("A1"))>>)

\* the server calls the handler registered as n: return _dispatch(tn, kwargs)
call_handler ==
    \E n \in ToolUniverse :
        /\ Serving(n)
        /\ CommitAs(_dispatch(Sim, HandlerOf(n).tn, HandlerArgs[n]), n, HandlerOf(n).tn,
                    HandlerArgs[n])

NextRegister ==
    \/ call_register_tools
    \/ call_handler

SpecRegister == InitRegister /\ [][NextRegister]_vars

\* the manifest entry a registered handler was made from
ManifestEntry(n) == manifest[CHOOSE i \in DOMAIN manifest : manifest[i].name = n]

\* the position of parameter p in the manifest entry's parameters
ManifestPosition(pm, p) == CHOOSE i \in DOMAIN pm : pm[i].name = p

\* C31: the signature of every registered handler has exactly the parameter names of its
\* manifest entry, each once; every parameter without default precedes every parameter
\* with one; within both groups the manifest order is kept; and a parameter has a default
\* exactly when the manifest gives it required = false
C31_SignatureRequiredFirst ==
    \A h \in {mcp_tools[i] : i \in DOMAIN mcp_tools} :
        LET pm == ManifestEntry(h.name).params
            sig == h.signature
        IN /\ Len(sig) = Len(pm)
           /\ {sig[j].name : j \in DOMAIN sig} = {pm[j].name : j \in DOMAIN pm}
           /\ \A j, k \in DOMAIN sig :
                  j < k => /\ sig[j].has_default => sig[k].has_default
                           /\ sig[j].has_default = sig[k].has_default
                                  => ManifestPosition(pm, sig[j].name)
                                         < ManifestPosition(pm, sig[k].name)
           /\ \A j \in DOMAIN sig :
                  sig[j].has_default
                      <=> pm[ManifestPosition(pm, sig[j].name)].required = Some(FALSE)

\* copy_sheet was registered from an entry that lists the optional newName before the
\* required name, and its signature is (name, newName=None)
C31_Witness ==
    /\ called = "register_tools"
    /\ Serving("copy_sheet")
    /\ Len(ManifestEntry("copy_sheet").params) = 2
    /\ ManifestEntry("copy_sheet").params[1].name = "newName"
    /\ ManifestEntry("copy_sheet").params[1].required = Some(FALSE)
    /\ ManifestEntry("copy_sheet").params[2].required = None
    /\ HandlerOf("copy_sheet").signature
           = <<Parameter("name", "str", FALSE), Parameter("newName", "str", TRUE)>>

\* C32: before register_tools has run no tool is registered; after it has run the names
\* registered with the server are exactly the manifest names that have a route, each
\* registered once
C32_RegisteredAreRoutedManifestTools ==
    LET routed == {i \in DOMAIN manifest : manifest[i].name \in DOMAIN _TOOL_ROUTES}
    IN IF called = "" THEN mcp_tools = <<>>
       ELSE /\ {mcp_tools[i].name : i \in DOMAIN mcp_tools} = {manifest[i].name : i \in routed}
            /\ Len(mcp_tools) = Cardinality(routed)

\* register_tools ran on a manifest of three entries whose first has no route: two tools
\* are registered and screenshot_range is not
C32_Witness ==
    /\ called = "register_tools"
    /\ Len(manifest) = 3
    /\ manifest[1].name = "screenshot_range"
    /\ Len(mcp_tools) = 2
    /\ ~Serving("screenshot_range")

\* C33: a call of the handler registered as N with keyword arguments K returns, or raises,
\* what _dispatch(N, K) does and leaves the simulator as _dispatch(N, K) leaves it,
\* whichever tools were registered after N
C33_HandlerDispatchesOwnName ==
    [][called' \notin {"", "register_tools"}
           => LET d == _dispatch(Sim, called', params')
              IN /\ response' = d.response
                 /\ result' = d.result
                 /\ Sim' = d.sim]_vars

\* the handler registered first of three routed-or-not manifest entries was called after
\* the loop had ended and dispatched create_sheet or copy_sheet under its own name
C33_Witness ==
    /\ Len(mcp_tools) = 2
    /\ called = mcp_tools[1].name
    /\ manifest[Len(manifest)].name # called
    /\ tool = called
    /\ Succeeded
    /\ "returned" \in DOMAIN response
    /\ HasSheet(Sim, "X")

====
